---- MODULE Spec2Model ----
(***************************************************************************)
(* Model of vectorizer-app/backend/main.py: the parameter validators       *)
(* (validate_potrace_params, validate_vtracer_params), the output          *)
(* normalizer (VectorizerService.normalize_svg_dimensions) and the         *)
(* POST /vectorize handler (vectorize_image).                              *)
(*                                                                         *)
(* Python values are records [t, m, d, sp, s]:                             *)
(*   t  : "int" | "float" | "bool" | "str" | "none" | "dict" | "list"      *)
(*   m,d: the number m / 10^d (bool: m is 0 or 1)                          *)
(*   sp : "" | "nan" | "inf" | "-inf" for the special floats               *)
(*   s  : the characters of a str, a sequence of one-character strings     *)
(* Text (markup, string parameters) is a sequence of characters.           *)
(***************************************************************************)
EXTENDS Integers, Sequences, FiniteSets, TLC

VARIABLES
    vEngine,    \* validator run: which validator is called
    vIn,        \* validator run: the mapping as passed in
    vParams,    \* validator run: the mapping object (mutated in place)
    vExc,       \* validator run: "" | the exception class raised
    vMsg,       \* validator run: the exception message
    vPc,        \* validator run: "idle" | "call" | "returned" | "raised"
    nIn,        \* normalizer call: the markup passed in
    nDims,      \* normalizer call: <<original_width, original_height>>
    nOut,       \* normalizer call: the text returned
    nFail,      \* normalizer call: the statement that raised (0: none)
    nWarned,    \* normalizer call: the warning was printed
    nPc,        \* normalizer call: "idle" | "call" | "returned" | "raised"
    hReq,       \* request: the upload, the form fields
    hPc,        \* request: the statement vectorize_image is at
    hParams,    \* request: the local params (the parsed parameters)
    hValidated, \* request: the blocks whose validator has returned
    hExc,       \* request: the exception that left the try block
    hCalls,     \* request: the engine calls made, in order
    hResults,   \* request: the local results
    hResp,      \* request: the response sent
    fCall,      \* engine calls: each call's engine, statement and paths
    fFiles,     \* engine calls: the temporary files on disk, with their creator
    fIssued,    \* engine calls: the identifiers uuid4 has returned
    fForeign,   \* engine calls: a call touched a file another call created
    eEngine,    \* engine call on an upload: "potrace" | "vtracer"
    eImage,     \* engine call on an upload: image_bytes
    eKwargs,    \* engine call on an upload: the keyword arguments
    eInput,     \* engine call on an upload: temp_input_path
    eImg,       \* engine call on an upload: the bitmap saved for potrace
    eSize,      \* engine call on an upload: <<original_width, original_height>>
    eCmd,       \* engine call on an upload: cmd
    eResult,    \* engine call on an upload: the result of subprocess.run
    eSvg,       \* engine call on an upload: the markup the engine wrote
    eFileSize,  \* engine call on an upload: file_size of the PNG saved
    eInvoked,   \* engine call on an upload: the VTracer library was called
    eRet,       \* engine call on an upload: what the call returned or raised
    ePc,        \* engine call on an upload: the statement the call is at
    cEnv,       \* CORS: the items of ALLOWED_ORIGINS
    cOrigin,    \* CORS: the Origin header of the request
    cPreflight, \* CORS: the request is a preflight request
    cOutcome,   \* CORS: what the route does with the request
    cRaised,    \* CORS: an exception is on its way up from the route
    cResp,      \* CORS: the response, its status and headers
    cPc         \* CORS: the place of the request or response in the stack

vvars == <<vEngine, vIn, vParams, vExc, vMsg, vPc>>
nvars == <<nIn, nDims, nOut, nFail, nWarned, nPc>>
hvars == <<hReq, hPc, hParams, hValidated, hExc, hCalls, hResults, hResp>>
fvars == <<fCall, fFiles, fIssued, fForeign>>
evars == <<eEngine, eImage, eKwargs, eInput, eImg, eSize, eCmd, eResult, eSvg,
           eFileSize, eInvoked, eRet, ePc>>
cvars == <<cEnv, cOrigin, cPreflight, cOutcome, cRaised, cResp, cPc>>
vars == <<vvars, nvars, hvars, fvars, evars, cvars>>

-----------------------------------------------------------------------------
(* Bounds of the model *)

\* most keys a parameter mapping holds in a validator run
MaxKeys == 2
\* most fragments a markup text is put together from in a normalizer call
MaxFrags == 3
\* the engine calls that can overlap in time
MaxCalls == 2

-----------------------------------------------------------------------------
(* Python values *)

RECURSIVE Pow10(_)
Pow10(n) == IF n = 0 THEN 1 ELSE 10 * Pow10(n - 1)

\* a float in lowest decimal form: 2.50 and 2.5 are the same float
RECURSIVE NormDec(_, _)
NormDec(m, d) ==
    IF d > 0 /\ m % 10 = 0 THEN NormDec(m \div 10, d - 1) ELSE <<m, d>>

PyInt(n) == [t |-> "int", m |-> n, d |-> 0, sp |-> "", s |-> <<>>]
PyFloat(m, d) ==
    [t |-> "float", m |-> NormDec(m, d)[1], d |-> NormDec(m, d)[2],
     sp |-> "", s |-> <<>>]
PySpecial(sp) == [t |-> "float", m |-> 0, d |-> 0, sp |-> sp, s |-> <<>>]
PyNaN == PySpecial("nan")
PyBool(b) ==
    [t |-> "bool", m |-> IF b THEN 1 ELSE 0, d |-> 0, sp |-> "", s |-> <<>>]
PyStr(chars) == [t |-> "str", m |-> 0, d |-> 0, sp |-> "", s |-> chars]
PyNone == [t |-> "none", m |-> 0, d |-> 0, sp |-> "", s |-> <<>>]

\* isinstance(v, (int, float)): bool is a subclass of int
IsNumberInstance(v) == v.t \in {"int", "float", "bool"}
\* isinstance(v, str)
IsStrInstance(v) == v.t = "str"
\* isinstance(v, bool)
IsBoolInstance(v) == v.t = "bool"

\* a < b on numbers: every comparison with nan is False
PyLt(a, b) ==
    IF a.sp = "nan" \/ b.sp = "nan" THEN FALSE
    ELSE IF a.sp = "inf" THEN FALSE
    ELSE IF a.sp = "-inf" THEN b.sp # "-inf"
    ELSE IF b.sp = "inf" THEN TRUE
    ELSE IF b.sp = "-inf" THEN FALSE
    ELSE a.m * Pow10(b.d) < b.m * Pow10(a.d)

\* a == b on numbers (1 == 1.0 == True)
PyNumEq(a, b) ==
    IF a.sp # "" \/ b.sp # "" THEN a.sp = b.sp /\ a.sp # "nan"
    ELSE a.m * Pow10(b.d) = b.m * Pow10(a.d)

\* a <= b on numbers
PyLe(a, b) == PyLt(a, b) \/ PyNumEq(a, b)

\* a > b on numbers
PyGt(a, b) == PyLt(b, a)

-----------------------------------------------------------------------------
(* Text *)

DigitChars == <<"0", "1", "2", "3", "4", "5", "6", "7", "8", "9">>
IsDigit(c) == \E i \in 1..10 : DigitChars[i] = c
DigitVal(c) == (CHOOSE i \in 1..10 : DigitChars[i] = c) - 1
\* str.isspace for the characters of the model
IsSpace(c) == c \in {" ", "\t", "\n"}

\* the text of a character sequence
RECURSIVE StrOf(_)
StrOf(chars) == IF chars = <<>> THEN "" ELSE Head(chars) \o StrOf(Tail(chars))

\* sep.join(items), items being texts
RECURSIVE Join(_, _)
Join(items, sep) ==
    IF items = <<>> THEN ""
    ELSE IF Len(items) = 1 THEN items[1]
    ELSE items[1] \o sep \o Join(Tail(items), sep)

RECURSIVE LStrip(_)
LStrip(chars) ==
    IF chars # <<>> /\ IsSpace(Head(chars)) THEN LStrip(Tail(chars)) ELSE chars
RECURSIVE RStrip(_)
RStrip(chars) ==
    IF chars # <<>> /\ IsSpace(chars[Len(chars)])
    THEN RStrip(SubSeq(chars, 1, Len(chars) - 1)) ELSE chars
Strip(chars) == RStrip(LStrip(chars))

AllDigits(chars) == chars # <<>> /\ \A i \in 1..Len(chars) : IsDigit(chars[i])

RECURSIVE DigitsValue(_)
DigitsValue(chars) ==
    IF chars = <<>> THEN 0
    ELSE 10 * DigitsValue(SubSeq(chars, 1, Len(chars) - 1))
         + DigitVal(chars[Len(chars)])

HasSign(chars) == chars # <<>> /\ Head(chars) \in {"+", "-"}
Unsigned(chars) == IF HasSign(chars) THEN Tail(chars) ELSE chars
SignOf(chars) == IF chars # <<>> /\ Head(chars) = "-" THEN -1 ELSE 1

\* '.' in value
HasDot(chars) == \E i \in 1..Len(chars) : chars[i] = "."
DotAt(chars) == CHOOSE i \in 1..Len(chars) : chars[i] = "."

\* int(text): surrounding whitespace, an optional sign, decimal digits.
\* [ok |-> FALSE] stands for ValueError.
PyIntParse(chars) ==
    LET body == Unsigned(Strip(chars)) IN
    IF AllDigits(body)
    THEN [ok |-> TRUE, v |-> PyInt(SignOf(Strip(chars)) * DigitsValue(body))]
    ELSE [ok |-> FALSE, v |-> PyNone]

\* float(text): surrounding whitespace, an optional sign, then nan, inf or
\* decimal digits with at most one point and at least one digit.
PyFloatParse(chars) ==
    LET st == Strip(chars)
        body == Unsigned(st)
        sg == SignOf(st)
    IN  IF body = <<"n", "a", "n">> THEN [ok |-> TRUE, v |-> PyNaN]
        ELSE IF body = <<"i", "n", "f">>
        THEN [ok |-> TRUE, v |-> PySpecial(IF sg = 1 THEN "inf" ELSE "-inf")]
        ELSE IF AllDigits(body)
        THEN [ok |-> TRUE, v |-> PyFloat(sg * DigitsValue(body), 0)]
        ELSE IF HasDot(body)
        THEN LET ip == SubSeq(body, 1, DotAt(body) - 1)
                 fp == SubSeq(body, DotAt(body) + 1, Len(body))
             IN  IF /\ ip \o fp # <<>>
                    /\ \A i \in 1..Len(ip) : IsDigit(ip[i])
                    /\ \A i \in 1..Len(fp) : IsDigit(fp[i])
                 THEN [ok |-> TRUE,
                       v |-> PyFloat(sg * DigitsValue(ip \o fp), Len(fp))]
                 ELSE [ok |-> FALSE, v |-> PyNone]
        ELSE [ok |-> FALSE, v |-> PyNone]

\* the d fractional digits of f, leading zeros kept
RECURSIVE FracText(_, _)
FracText(f, d) ==
    IF d = 0 THEN "" ELSE FracText(f \div 10, d - 1) \o ToString(f % 10)

\* str(number) as an f-string renders it (the numbers of the range table)
PyNumText(v) ==
    IF v.t = "int" THEN ToString(v.m)
    ELSE IF v.d = 0 THEN ToString(v.m) \o ".0"
    ELSE ToString(v.m \div Pow10(v.d)) \o "." \o FracText(v.m % Pow10(v.d), v.d)

-----------------------------------------------------------------------------
(* Parameter validation.  A validator run ends as a record                 *)
(*   [exc, msg, params]: exc is "" when it returns, else the class of the  *)
(*   exception; msg is the message as the pieces the code joins; params is *)
(*   the mapping object as the run leaves it.                              *)

PVE == "ParameterValidationError"
Returns(params) == [exc |-> "", msg |-> <<>>, params |-> params]
Raises(msg, params) == [exc |-> PVE, msg |-> msg, params |-> params]
Has(params, key) == key \in DOMAIN params

valid_policies ==
    << <<"b","l","a","c","k">>, <<"w","h","i","t","e">>, <<"l","e","f","t">>,
       <<"r","i","g","h","t">>, <<"m","i","n","o","r","i","t","y">>,
       <<"m","a","j","o","r","i","t","y">>, <<"r","a","n","d","o","m">> >>

\* value in a list of texts: only an equal str is in it
InTexts(v, texts) == v.t = "str" /\ \E i \in 1..Len(texts) : texts[i] = v.s

TextsOf(seqs) == [i \in 1..Len(seqs) |-> StrOf(seqs[i])]

\* (mutant) every numeric string becomes a float
IntOrFloat_AlwaysFloat(chars) == PyFloatParse(chars)

\* int(x) if '.' not in x else float(x)
IntOrFloat(chars) ==
    IF ~HasDot(chars) THEN PyIntParse(chars) ELSE PyFloatParse(chars)

PotraceCoerceTurdsize(params) ==
    IF Has(params, "turdsize") /\ IsStrInstance(params["turdsize"])
    THEN LET r == IntOrFloat(params["turdsize"].s) IN
         IF r.ok THEN Returns([params EXCEPT !["turdsize"] = r.v])
         ELSE Raises(<<"turdsize", " must be a valid number">>, params)
    ELSE Returns(params)

PotraceCoerceAlphamax(params) ==
    IF Has(params, "alphamax") /\ IsStrInstance(params["alphamax"])
    THEN LET r == PyFloatParse(params["alphamax"].s) IN
         IF r.ok THEN Returns([params EXCEPT !["alphamax"] = r.v])
         ELSE Raises(<<"alphamax", " must be a valid number">>, params)
    ELSE Returns(params)

\* (mutant) the lower bound of turdsize is not checked
PotraceCheckTurdsize_NoLowerBound(params) ==
    IF /\ Has(params, "turdsize")
       /\ \/ ~IsNumberInstance(params["turdsize"])
          \/ PyGt(params["turdsize"], PyInt(100))
    THEN Raises(<<"turdsize", " must be a number between 0 and 100">>, params)
    ELSE Returns(params)

PotraceCheckTurdsize(params) ==
    IF /\ Has(params, "turdsize")
       /\ \/ ~IsNumberInstance(params["turdsize"])
          \/ PyLt(params["turdsize"], PyInt(0))
          \/ PyGt(params["turdsize"], PyInt(100))
    THEN Raises(<<"turdsize", " must be a number between 0 and 100">>, params)
    ELSE Returns(params)

PotraceCheckAlphamax(params) ==
    IF /\ Has(params, "alphamax")
       /\ \/ ~IsNumberInstance(params["alphamax"])
          \/ PyLt(params["alphamax"], PyInt(0))
          \/ PyGt(params["alphamax"], PyFloat(20, 1))
    THEN Raises(<<"alphamax", " must be a number between 0.0 and 2.0">>, params)
    ELSE Returns(params)

PotraceCheckTurnpolicy(params) ==
    IF Has(params, "turnpolicy") /\ ~InTexts(params["turnpolicy"], valid_policies)
    THEN Raises(<<"turnpolicy", " must be one of: ",
                  Join(TextsOf(valid_policies), ", ")>>, params)
    ELSE Returns(params)

PotraceCheckInvert(params) ==
    IF Has(params, "invert") /\ ~IsBoolInstance(params["invert"])
    THEN Raises(<<"invert", " must be a boolean">>, params)
    ELSE Returns(params)

PotraceCheckOpticurve(params) ==
    IF Has(params, "opticurve") /\ ~IsBoolInstance(params["opticurve"])
    THEN Raises(<<"opticurve", " must be a boolean">>, params)
    ELSE Returns(params)

\* the statements of validate_potrace_params, in program order
PotraceStatement(i, params) ==
    CASE i = 1 -> PotraceCoerceTurdsize(params)
      [] i = 2 -> PotraceCoerceAlphamax(params)
      [] i = 3 -> PotraceCheckTurdsize(params)
      [] i = 4 -> PotraceCheckAlphamax(params)
      [] i = 5 -> PotraceCheckTurnpolicy(params)
      [] i = 6 -> PotraceCheckInvert(params)
      [] OTHER -> PotraceCheckOpticurve(params)

\* a statement runs only when the ones before it did not raise
RECURSIVE PotraceFrom(_, _)
PotraceFrom(i, params) ==
    LET r == PotraceStatement(i, params)
    IN  IF r.exc # "" \/ i = 7 THEN r ELSE PotraceFrom(i + 1, r.params)

\* a parsed JSON value that is an object (Python values are the records above)
IsMapping(v) == "t" \notin DOMAIN v
\* line 120: `'turdsize' in params` on a number raises TypeError
NotIterable(params) ==
    [exc |-> "TypeError", msg |-> <<"argument of type 'int' is not iterable">>,
     params |-> params]

validate_potrace_params(params) ==
    IF IsMapping(params) THEN PotraceFrom(1, params) ELSE NotIterable(params)

\* the validations table of validate_vtracer_params, in insertion order
NoRange == <<PyNone, PyNone>>
NumberRule(param, lo, hi) ==
    [param |-> param, type |-> <<"int", "float">>, tuple |-> TRUE,
     values |-> <<>>, hasValues |-> FALSE, range |-> <<lo, hi>>,
     hasRange |-> TRUE, convert |-> TRUE]
validations ==
    << [param |-> "colormode", type |-> <<"str">>, tuple |-> FALSE,
        values |-> << <<"c","o","l","o","r">>, <<"b","i","n","a","r","y">> >>,
        hasValues |-> TRUE, range |-> NoRange, hasRange |-> FALSE,
        convert |-> FALSE],
       NumberRule("color_precision", PyInt(1), PyInt(8)),
       NumberRule("filter_speckle", PyInt(1), PyInt(100)),
       NumberRule("corner_threshold", PyInt(0), PyInt(180)),
       NumberRule("length_threshold", PyFloat(0, 1), PyFloat(500, 1)),
       NumberRule("max_iterations", PyInt(1), PyInt(100)),
       NumberRule("splice_threshold", PyInt(0), PyInt(180)),
       NumberRule("path_precision", PyInt(1), PyInt(10)) >>

\* isinstance(value, validation['type'])
IsInstanceOf(v, type) ==
    \E i \in 1..Len(type) :
        \/ type[i] = "str" /\ IsStrInstance(v)
        \/ type[i] \in {"int", "float"} /\ IsNumberInstance(v)
           /\ (v.t = "float" => type[i] = "float")
           /\ (v.t \in {"int", "bool"} => type[i] = "int")

\* lines 171-182: the string conversion of one table entry
VtracerConvert(rule, params) ==
    LET value == params[rule.param] IN
    IF rule.convert /\ IsStrInstance(value)
    THEN LET r == IF HasDot(value.s) THEN PyFloatParse(value.s)
                  ELSE PyIntParse(value.s) IN
         IF r.ok THEN Returns([params EXCEPT ![rule.param] = r.v])
         ELSE Raises(<<rule.param, " must be a valid number">>, params)
    ELSE Returns(params)

\* lines 184-191: the type check of one table entry
VtracerTypeCheck(rule, params) ==
    IF IsInstanceOf(params[rule.param], rule.type) THEN Returns(params)
    ELSE IF rule.tuple
    THEN Raises(<<rule.param, " must be a ", Join(rule.type, " or ")>>, params)
    ELSE Raises(<<rule.param, " must be a ", rule.type[1]>>, params)

\* lines 193-196: the allowed-values check of one table entry
VtracerValueCheck(rule, params) ==
    IF rule.hasValues /\ ~InTexts(params[rule.param], rule.values)
    THEN Raises(<<rule.param, " must be one of: ",
                  Join(TextsOf(rule.values), ", ")>>, params)
    ELSE Returns(params)

\* (mutant) the ends of the range are not allowed
VtracerRangeCheck_Exclusive(rule, params) ==
    IF /\ rule.hasRange
       /\ ~(/\ PyLt(rule.range[1], params[rule.param])
            /\ PyLt(params[rule.param], rule.range[2]))
    THEN Raises(<<rule.param, " must be between ", PyNumText(rule.range[1]),
                  " and ", PyNumText(rule.range[2])>>, params)
    ELSE Returns(params)

\* lines 198-202: not (min_val <= value <= max_val)
VtracerRangeCheck(rule, params) ==
    IF /\ rule.hasRange
       /\ ~(/\ PyLe(rule.range[1], params[rule.param])
            /\ PyLe(params[rule.param], rule.range[2]))
    THEN Raises(<<rule.param, " must be between ", PyNumText(rule.range[1]),
                  " and ", PyNumText(rule.range[2])>>, params)
    ELSE Returns(params)

\* the checks of one table entry, after its conversion
VtracerChecks(rule, params) ==
    LET t == VtracerTypeCheck(rule, params) IN
    IF t.exc # "" THEN t
    ELSE LET v == VtracerValueCheck(rule, params) IN
         IF v.exc # "" THEN v ELSE VtracerRangeCheck(rule, params)

\* (mutant) a string is converted, any other value is checked
VtracerEntry_ConvertOrCheck(rule, params) ==
    IF ~Has(params, rule.param) THEN Returns(params)
    ELSE IF rule.convert /\ IsStrInstance(params[rule.param])
    THEN VtracerConvert(rule, params)
    ELSE VtracerChecks(rule, params)

\* the body of the for loop for one table entry
VtracerEntry(rule, params) ==
    IF ~Has(params, rule.param) THEN Returns(params)
    ELSE LET c == VtracerConvert(rule, params) IN
         IF c.exc # "" THEN c
         ELSE LET t == VtracerTypeCheck(rule, c.params) IN
              IF t.exc # "" THEN t
              ELSE LET v == VtracerValueCheck(rule, c.params) IN
                   IF v.exc # "" THEN v
                   ELSE VtracerRangeCheck(rule, c.params)

\* (mutant) every string is converted before the first check is made
RECURSIVE VtracerConvertFrom(_, _)
VtracerConvertFrom(i, params) ==
    IF i > Len(validations) THEN Returns(params)
    ELSE LET r == IF Has(params, validations[i].param)
                  THEN VtracerConvert(validations[i], params)
                  ELSE Returns(params) IN
         IF r.exc # "" THEN r ELSE VtracerConvertFrom(i + 1, r.params)
RECURSIVE VtracerCheckFrom(_, _)
VtracerCheckFrom(i, params) ==
    IF i > Len(validations) THEN Returns(params)
    ELSE LET r == IF Has(params, validations[i].param)
                  THEN VtracerChecks(validations[i], params)
                  ELSE Returns(params) IN
         IF r.exc # "" THEN r ELSE VtracerCheckFrom(i + 1, r.params)
VtracerLoop_ConvertsFirst(i, params) ==
    LET c == VtracerConvertFrom(i, params) IN
    IF c.exc # "" THEN c ELSE VtracerCheckFrom(i, c.params)

\* for param, validation in validations.items(), from entry i on
RECURSIVE VtracerLoop(_, _)
VtracerLoop(i, params) ==
    IF i > Len(validations) THEN Returns(params)
    ELSE LET r == VtracerEntry(validations[i], params) IN
         IF r.exc # "" THEN r ELSE VtracerLoop(i + 1, r.params)

\* (mutant) a key that is not in the table is rejected
validate_vtracer_params_Strict(params) ==
    LET known == { validations[i].param : i \in 1..Len(validations) } IN
    IF DOMAIN params \subseteq known THEN VtracerLoop(1, params)
    ELSE Raises(<<CHOOSE k \in DOMAIN params \ known : TRUE,
                  " is not a known parameter">>, params)

validate_vtracer_params(params) == VtracerLoop(1, params)

-----------------------------------------------------------------------------
(* Output normalizer: re.sub on texts, as character sequences              *)

QUOTE == "\""
L_width == <<"w", "i", "d", "t", "h", "=", "\"">>
L_height == <<"h", "e", "i", "g", "h", "t", "=", "\"">>
L_viewBoxAttr == <<"v", "i", "e", "w", "B", "o", "x", "=", "\"">>
L_viewBoxEq == <<"v", "i", "e", "w", "B", "o", "x", "=">>
L_svg == <<"<", "s", "v", "g">>

StartsWithAt(text, i, lit) ==
    /\ i + Len(lit) - 1 <= Len(text)
    /\ SubSeq(text, i, i + Len(lit) - 1) = lit

\* lit in text
Contains(text, lit) == \E i \in 1..Len(text) : StartsWithAt(text, i, lit)

\* the first place from i on where text holds c; Len(text) + 1 when none
RECURSIVE FirstFrom(_, _, _)
FirstFrom(text, i, c) ==
    IF i > Len(text) THEN Len(text) + 1
    ELSE IF text[i] = c THEN i
    ELSE FirstFrom(text, i + 1, c)

\* \s* from i on: the first place that holds no whitespace
RECURSIVE SkipSpace(_, _)
SkipSpace(text, i) ==
    IF i <= Len(text) /\ IsSpace(text[i]) THEN SkipSpace(text, i + 1) ELSE i

\* a match of  lit[^"]*"  (after \s* when spaces is TRUE) starting at i: the
\* place after its closing quote, or 0 when the pattern does not match at i
AttrMatchEnd(text, i, lit, spaces) ==
    LET j == IF spaces THEN SkipSpace(text, i) ELSE i
        q == FirstFrom(text, j + Len(lit), QUOTE)
    IN  IF StartsWithAt(text, j, lit) /\ q <= Len(text) THEN q + 1 ELSE 0

\* re.sub(pattern, repl, text) for the attribute patterns, from place i on:
\* leftmost matches, none overlapping, each replaced by repl
RECURSIVE SubAttrFrom(_, _, _, _, _)
SubAttrFrom(text, i, lit, spaces, repl) ==
    IF i > Len(text) THEN <<>>
    ELSE LET e == AttrMatchEnd(text, i, lit, spaces) IN
         IF e # 0 THEN repl \o SubAttrFrom(text, e, lit, spaces, repl)
         ELSE <<text[i]>> \o SubAttrFrom(text, i + 1, lit, spaces, repl)

\* re.sub(r'(<svg[^>]*)', '\\1 ' + ins, text) from place i on
RECURSIVE SubSvgFrom(_, _, _)
SubSvgFrom(text, i, ins) ==
    IF i > Len(text) THEN <<>>
    ELSE IF StartsWithAt(text, i, L_svg)
    THEN LET e == FirstFrom(text, i + Len(L_svg), ">") IN
         SubSeq(text, i, e - 1) \o <<" ">> \o ins \o SubSvgFrom(text, e, ins)
    ELSE <<text[i]>> \o SubSvgFrom(text, i + 1, ins)

\* str(n) of a non-negative int
RECURSIVE IntChars(_)
IntChars(n) ==
    IF n < 10 THEN <<DigitChars[n + 1]>>
    ELSE IntChars(n \div 10) \o <<DigitChars[(n % 10) + 1]>>

\* line 217: f'viewBox="0 0 {original_width} {original_height}"'
new_viewbox(w, h) ==
    L_viewBoxAttr \o <<"0", " ", "0", " ">> \o IntChars(w) \o <<" ">>
    \o IntChars(h) \o <<QUOTE>>

\* line 212
StripWidth(text) == SubAttrFrom(text, 1, L_width, TRUE, <<>>)
\* line 213
StripHeight(text) == SubAttrFrom(text, 1, L_height, TRUE, <<>>)
\* (mutant) the viewBox is put in front of a text that has no svg tag
EnsureViewBox_Prepends(text, w, h) ==
    IF Contains(text, L_viewBoxEq)
    THEN SubAttrFrom(text, 1, L_viewBoxAttr, FALSE, new_viewbox(w, h))
    ELSE IF Contains(text, L_svg) THEN SubSvgFrom(text, 1, new_viewbox(w, h))
    ELSE new_viewbox(w, h) \o text

\* lines 219-223
EnsureViewBox(text, w, h) ==
    IF Contains(text, L_viewBoxEq)
    THEN SubAttrFrom(text, 1, L_viewBoxAttr, FALSE, new_viewbox(w, h))
    ELSE SubSvgFrom(text, 1, new_viewbox(w, h))

\* except Exception: the warning is printed and the local svg_content, as the
\* statements before the failing one left it, is returned
Caught(svg_content) == [exc |-> "", ret |-> svg_content, warned |-> TRUE]
Normal(svg_content) == [exc |-> "", ret |-> svg_content, warned |-> FALSE]

\* normalize_svg_dimensions; fail names the statement of the try block that
\* raises (1: line 212, 2: line 213, 3: line 220 or 223; 0: none does)
normalize_svg_dimensions(svg_content, w, h, fail) ==
    LET s1 == StripWidth(svg_content)
        s2 == StripHeight(s1)
        s3 == EnsureViewBox(s2, w, h)
    IN  IF fail = 1 THEN Caught(svg_content)
        ELSE IF fail = 2 THEN Caught(s1)
        ELSE IF fail = 3 THEN Caught(s2)
        ELSE Normal(s3)

-----------------------------------------------------------------------------
(* Normalizer calls: one call on a markup text put together from fragments *)

F_svg == L_svg
F_gt == <<">">>
F_width == <<" ", "w", "i", "d", "t", "h", "=", "\"", "5", "\"">>
F_height == <<" ", "h", "e", "i", "g", "h", "t", "=", "\"", "7", "\"">>
F_viewBox == <<" ", "v", "i", "e", "w", "B", "o", "x", "=", "\"", "0", " ", "0", " ", "1", " ", "1", "\"">>
F_w == <<"w">>
F_idth == <<"i", "d", "t", "h", "=", "\"", "3", "\"">>
F_stroke == <<" ", "s", "t", "r", "o", "k", "e", "-", "w", "i", "d", "t", "h", "=", "\"", "2", "\"">>

Fragments ==
    {F_svg, F_gt, F_width, F_height, F_viewBox, F_w, F_idth, F_stroke}

RECURSIVE Concat(_)
Concat(parts) == IF parts = <<>> THEN <<>> ELSE Head(parts) \o Concat(Tail(parts))

Markups ==
    { Concat(parts) : parts \in UNION { [1..n -> Fragments] : n \in 0..MaxFrags } }

Dimensions == { <<100, 50>>, <<1, 1>> }
\* the statements of the try block that can raise
FailPoints == 0..3

-----------------------------------------------------------------------------
(* Validator runs: one call of a validator on a mapping a client can send  *)

T_2 == <<"2">>
T_2p5 == <<"2", ".", "5">>
T_abc == <<"a", "b", "c">>
T_999 == <<"9", "9", "9">>
T_nan == <<"n", "a", "n">>
T_sp2 == <<" ", "2">>

\* values tried for every numeric key, besides the ends of its range
CommonValues ==
    { PyBool(TRUE), PyNone, PyStr(T_2), PyStr(T_2p5), PyStr(T_abc) }

IntEnds(lo, hi) == { PyInt(lo - 1), PyInt(lo), PyInt(hi), PyInt(hi + 1) }
\* the ends of a range in tenths, and the floats one tenth outside it
FloatEnds(lo, hi) ==
    { PyFloat(lo - 1, 1), PyFloat(lo, 1), PyFloat(hi, 1), PyFloat(hi + 1, 1) }

BoolValues == { PyBool(TRUE), PyBool(FALSE), PyInt(1), PyStr(T_abc), PyNone }

PotraceKeys ==
    {"turdsize", "alphamax", "turnpolicy", "invert", "opticurve", "extra"}
VtracerKeys ==
    { validations[i].param : i \in 1..Len(validations) } \cup {"extra"}
NumericKeys ==
    {"turdsize", "alphamax"}
    \cup { validations[i].param : i \in { j \in 1..Len(validations) :
                                           validations[j].hasRange } }

\* the values a client sends for a key in the runs of the model
Pool(key) ==
    CASE key = "turdsize" ->
            IntEnds(0, 100) \cup CommonValues
            \cup {PyNaN, PyStr(T_999), PyStr(T_sp2)}
      [] key = "alphamax" ->
            FloatEnds(0, 20) \cup CommonValues
            \cup {PyInt(2), PyNaN, PyStr(T_nan)}
      [] key = "turnpolicy" ->
            { PyStr(valid_policies[5]), PyStr(valid_policies[1]),
              PyStr(T_abc), PyInt(1), PyNone }
      [] key \in {"invert", "opticurve"} -> BoolValues
      [] key = "colormode" ->
            { PyStr(validations[1].values[1]), PyStr(validations[1].values[2]),
              PyStr(T_abc), PyInt(1) }
      [] key = "color_precision" ->
            IntEnds(1, 8) \cup CommonValues
            \cup {PyBool(FALSE), PyNaN, PyStr(T_999)}
      [] key = "filter_speckle" -> IntEnds(1, 100) \cup CommonValues
      [] key = "corner_threshold" -> IntEnds(0, 180) \cup CommonValues
      [] key = "length_threshold" -> FloatEnds(0, 500) \cup CommonValues
      [] key = "max_iterations" -> IntEnds(1, 100) \cup CommonValues
      [] key = "splice_threshold" -> IntEnds(0, 180) \cup CommonValues
      [] key = "path_precision" -> IntEnds(1, 10) \cup CommonValues
      [] OTHER -> { PyInt(7), PyStr(T_abc) }

EmptyMapping == [k \in {} |-> PyNone]

\* every mapping with the keys D, each value from its key's pool
RECURSIVE MappingsOver(_)
MappingsOver(D) ==
    IF D = {} THEN {EmptyMapping}
    ELSE LET k == CHOOSE x \in D : TRUE IN
         { (k :> v) @@ f : v \in Pool(k), f \in MappingsOver(D \ {k}) }

Mappings(keys) ==
    UNION { MappingsOver(D) : D \in { E \in SUBSET keys : Cardinality(E) <= MaxKeys } }

\* no normalizer call is under way
NormIdle ==
    /\ nIn = <<>>
    /\ nDims = <<0, 0>>
    /\ nOut = <<>>
    /\ nFail = 0
    /\ nWarned = FALSE
    /\ nPc = "idle"

\* no validator run is under way
ValIdle ==
    /\ vEngine = ""
    /\ vIn = EmptyMapping
    /\ vParams = EmptyMapping
    /\ vExc = ""
    /\ vMsg = <<>>
    /\ vPc = "idle"

-----------------------------------------------------------------------------
(* The engine calls: potrace_vectorize, vtracer_vectorize and their        *)
(* temporary files. A path is <<prefix, identifier, extension>>; fFiles    *)
(* maps every file on disk to the call that created it.                    *)

Calls == 1..MaxCalls
\* the random part of the names NamedTemporaryFile makes up
TempNames == {"a", "b", "c"}
\* the values of uuid.uuid4()
UUIDs == {"u1", "u2", "u3"}

NoPath == <<>>
NoCall == [engine |-> "", pc |-> "idle", fault |-> "none",
           input |-> NoPath, svg |-> NoPath, bmp |-> NoPath]

\* lines 239-240, 332-333: the path with another extension
ReplaceExt(path, ext) == <<path[1], path[2], ext>>

\* (mutant) NamedTemporaryFile hands out one fixed path
NamedTemporaryFile_Fixed(files) == { <<"tmp", "a", ".png">> }

\* line 235: NamedTemporaryFile(suffix='.png', delete=False) creates a file
\* that did not exist (O_EXCL) under a made-up name
NamedTemporaryFile(files) ==
    { <<"tmp", n, ".png">> : n \in TempNames } \ DOMAIN files

\* line 311: uuid.uuid4() returns an identifier it has not returned before
uuid4(issued) == UUIDs \ issued

\* what an engine call can run into
PotraceFaults == {"undecodable", "exit_nonzero", "unreadable_output"}
VtracerFaults == {"convert_failed", "preflight_failed", "engine_exception",
                  "unreadable_output"}
EngineFaults(engine) ==
    IF engine = "potrace" THEN PotraceFaults ELSE VtracerFaults

Markup == <<"<svg>">>

\* (mutant) a non-zero exit code of potrace is answered with fallback markup
potrace_vectorize_Fallback(fault) ==
    IF fault = "none" \/ fault = "exit_nonzero"
    THEN [raised |-> FALSE, text |-> Markup]
    ELSE [raised |-> TRUE, text |-> <<"Potrace processing failed: ", fault>>]

\* lines 231-295: the call returns the markup, or whatever goes wrong in the
\* try block (lines 276-277: a non-zero exit code raises) leaves it as
\* Exception("Potrace processing failed: ...")
potrace_vectorize(fault) ==
    IF fault = "none"
    THEN [raised |-> FALSE, text |-> Markup]
    ELSE [raised |-> TRUE, text |-> <<"Potrace processing failed: ", fault>>]

\* lines 297-438: the same for Exception("VTracer processing failed: ...")
vtracer_vectorize(fault) ==
    IF fault = "none"
    THEN [raised |-> FALSE, text |-> Markup]
    ELSE [raised |-> TRUE, text |-> <<"VTracer processing failed: ", fault>>]

\* the call touches a file that another call created
Touches(c, paths) == \E p \in paths \cap DOMAIN fFiles : fFiles[p] # c
\* the call writes the file: it creates it unless it is there already
Written(files, c, p) == IF p \in DOMAIN files THEN files ELSE (p :> c) @@ files
\* os.unlink of those of the paths that exist
Unlinked(files, paths) == [p \in DOMAIN files \ paths |-> files[p]]

\* line 287: for path in [temp_input_path, temp_svg_path, temp_bmp_path]
PotraceCleanupPaths(call) == {call.input, call.svg, call.bmp}

\* (mutant) only the input file is removed
VtracerCleanupPaths_InputOnly(call) == {call.input} \ {NoPath}

\* lines 421, 432: for path in [temp_input_path, temp_svg_path]
VtracerCleanupPaths(call) == {call.input, call.svg} \ {NoPath}

\* the call goes on to statement pc, or stops with the fault
Goes(c, pc, fault, touched) ==
    /\ fCall' = [fCall EXCEPT ![c].pc = pc, ![c].fault = fault]
    /\ fForeign' = (fForeign \/ Touches(c, touched))

\* lines 235-240: the input file is created, the other two paths derived
PotraceCreateInput(c) ==
    /\ fCall[c].pc = "idle"
    /\ \E path \in NamedTemporaryFile(fFiles) :
          /\ fCall' = [fCall EXCEPT ![c] =
                          [engine |-> "potrace", pc |-> "convert",
                           fault |-> "none", input |-> path,
                           svg |-> ReplaceExt(path, ".svg"),
                           bmp |-> ReplaceExt(path, ".bmp")]]
          /\ fFiles' = Written(fFiles, c, path)
          /\ fForeign' = (fForeign \/ Touches(c, {path}))
    /\ UNCHANGED fIssued
    /\ UNCHANGED <<vvars, nvars, hvars, evars, cvars>>

\* lines 243-250: the image is decoded and saved as the bitmap
PotraceToBitmap(c) ==
    /\ fCall[c].engine = "potrace" /\ fCall[c].pc = "convert"
    /\ \/ /\ Goes(c, "raised", "undecodable", {fCall[c].input})
          /\ UNCHANGED fFiles
       \/ /\ Goes(c, "run", "none", {fCall[c].input, fCall[c].bmp})
          /\ fFiles' = Written(fFiles, c, fCall[c].bmp)
    /\ UNCHANGED fIssued
    /\ UNCHANGED <<vvars, nvars, hvars, evars, cvars>>

\* lines 253-277: potrace runs on the bitmap; a failing run may have left
\* an output file
PotraceRunCommand(c) ==
    /\ fCall[c].engine = "potrace" /\ fCall[c].pc = "run"
    /\ \E returncode \in {0, 1}, wrote \in BOOLEAN :
          LET fault == IF returncode # 0 THEN "exit_nonzero" ELSE "none" IN
          /\ returncode = 0 => wrote
          /\ Goes(c, IF potrace_vectorize(fault).raised THEN "raised" ELSE "read",
                  fault,
                  {fCall[c].bmp} \cup (IF wrote THEN {fCall[c].svg} ELSE {}))
          /\ fFiles' = IF wrote THEN Written(fFiles, c, fCall[c].svg) ELSE fFiles
    /\ UNCHANGED fIssued
    /\ UNCHANGED <<vvars, nvars, hvars, evars, cvars>>

\* lines 280-284: the output is read and normalized
PotraceReadOutput(c) ==
    /\ fCall[c].engine = "potrace" /\ fCall[c].pc = "read"
    /\ \/ Goes(c, "raised", "unreadable_output", {fCall[c].svg})
       \/ Goes(c, "cleanup", "none", {fCall[c].svg})
    /\ UNCHANGED <<fFiles, fIssued>>
    /\ UNCHANGED <<vvars, nvars, hvars, evars, cvars>>

\* lines 286-291: the files are removed and the markup returned
PotraceCleanup(c) ==
    /\ fCall[c].engine = "potrace" /\ fCall[c].pc = "cleanup"
    /\ Goes(c, "returned", "none", PotraceCleanupPaths(fCall[c]))
    /\ fFiles' = Unlinked(fFiles, PotraceCleanupPaths(fCall[c]))
    /\ UNCHANGED fIssued
    /\ UNCHANGED <<vvars, nvars, hvars, evars, cvars>>

\* lines 299-313: both paths are named after a fresh uuid4
VtracerPaths(c) ==
    /\ fCall[c].pc = "idle"
    /\ \E unique_id \in uuid4(fIssued) :
          /\ fCall' = [fCall EXCEPT ![c] =
                          [engine |-> "vtracer", pc |-> "convert",
                           fault |-> "none",
                           input |-> <<"vtracer_input_", unique_id, ".png">>,
                           svg |-> <<"vtracer_output_", unique_id, ".svg">>,
                           bmp |-> NoPath]]
          /\ fIssued' = fIssued \cup {unique_id}
    /\ UNCHANGED <<fFiles, fForeign>>
    /\ UNCHANGED <<vvars, nvars, hvars, evars, cvars>>

\* lines 316-322: the upload is saved as a PNG; a failing save may have left
\* a file
VtracerToPng(c) ==
    /\ fCall[c].engine = "vtracer" /\ fCall[c].pc = "convert"
    /\ \/ \E wrote \in BOOLEAN :
            /\ Goes(c, "except", "convert_failed",
                    IF wrote THEN {fCall[c].input} ELSE {})
            /\ fFiles' = IF wrote THEN Written(fFiles, c, fCall[c].input)
                         ELSE fFiles
       \/ /\ Goes(c, "preflight", "none", {fCall[c].input})
          /\ fFiles' = Written(fFiles, c, fCall[c].input)
    /\ UNCHANGED fIssued
    /\ UNCHANGED <<vvars, nvars, hvars, evars, cvars>>

\* lines 327-373: the output path becomes the input path with .svg, then the
\* input file is checked (exists, readable, size, a valid image, reads back)
VtracerPreflight(c) ==
    /\ fCall[c].engine = "vtracer" /\ fCall[c].pc = "preflight"
    /\ \E ok \in BOOLEAN :
          /\ fCall' = [fCall EXCEPT
                          ![c].svg = ReplaceExt(fCall[c].input, ".svg"),
                          ![c].pc = IF ok THEN "run" ELSE "except",
                          ![c].fault = IF ok THEN "none" ELSE "preflight_failed"]
          /\ fForeign' = (fForeign \/ Touches(c, {fCall[c].input}))
    /\ UNCHANGED <<fFiles, fIssued>>
    /\ UNCHANGED <<vvars, nvars, hvars, evars, cvars>>

\* lines 376-411: vtracer converts the input; a failing conversion may have
\* left an output file
VtracerRunEngine(c) ==
    /\ fCall[c].engine = "vtracer" /\ fCall[c].pc = "run"
    /\ \E ok \in BOOLEAN, wrote \in BOOLEAN :
          /\ ok => wrote
          /\ Goes(c, IF ok THEN "read" ELSE "except",
                  IF ok THEN "none" ELSE "engine_exception",
                  {fCall[c].input} \cup (IF wrote THEN {fCall[c].svg} ELSE {}))
          /\ fFiles' = IF wrote THEN Written(fFiles, c, fCall[c].svg) ELSE fFiles
    /\ UNCHANGED fIssued
    /\ UNCHANGED <<vvars, nvars, hvars, evars, cvars>>

\* lines 414-418: the output is read and normalized
VtracerReadOutput(c) ==
    /\ fCall[c].engine = "vtracer" /\ fCall[c].pc = "read"
    /\ \/ Goes(c, "except", "unreadable_output", {fCall[c].svg})
       \/ Goes(c, "cleanup", "none", {fCall[c].svg})
    /\ UNCHANGED <<fFiles, fIssued>>
    /\ UNCHANGED <<vvars, nvars, hvars, evars, cvars>>

\* lines 420-428: the files are removed and the markup returned
VtracerCleanup(c) ==
    /\ fCall[c].engine = "vtracer" /\ fCall[c].pc = "cleanup"
    /\ Goes(c, "returned", "none", VtracerCleanupPaths(fCall[c]))
    /\ fFiles' = Unlinked(fFiles, VtracerCleanupPaths(fCall[c]))
    /\ UNCHANGED fIssued
    /\ UNCHANGED <<vvars, nvars, hvars, evars, cvars>>

\* lines 430-438: except Exception removes the files and raises
VtracerExceptCleanup(c) ==
    /\ fCall[c].engine = "vtracer" /\ fCall[c].pc = "except"
    /\ Goes(c, "raised", fCall[c].fault, VtracerCleanupPaths(fCall[c]))
    /\ fFiles' = Unlinked(fFiles, VtracerCleanupPaths(fCall[c]))
    /\ UNCHANGED fIssued
    /\ UNCHANGED <<vvars, nvars, hvars, evars, cvars>>

FilesIdle ==
    /\ fCall = [c \in Calls |-> NoCall]
    /\ fFiles = EmptyMapping
    /\ fIssued = {}
    /\ fForeign = FALSE

-----------------------------------------------------------------------------
(* One engine call on an upload: what potrace_vectorize hands to the       *)
(* potrace program and what vtracer_vectorize checks before it calls the   *)
(* VTracer library. An image is the row of its grayscale pixels.           *)

\* most pixels of an uploaded image
MaxPixels == 2

GrayLevels == {0, 100, 255}
\* the lengths in bytes of an upload, and of a PNG file that img.save writes
UploadLengths == {90, 120}
PngLengths == {90, 150}

\* image_bytes: an upload that PIL decodes (its format, its length in bytes,
\* its pixels after convert('L')), or one that it does not
Uploads ==
    { [decodes |-> TRUE, format |-> f, length |-> n, gray |-> g] :
        f \in {"PNG", "JPEG", "GIF"}, n \in UploadLengths,
        g \in UNION { [1..k -> GrayLevels] : k \in 1..MaxPixels } }
    \cup { [decodes |-> FALSE, format |-> "", length |-> n, gray |-> <<>>] :
             n \in UploadLengths }

\* the keyword arguments of a potrace_vectorize call
PotraceArgs ==
    [ invert : {PyBool(FALSE), PyBool(TRUE)},
      turdsize : {PyInt(2), PyInt(0), PyFloat(25, 1)},
      turnpolicy : {PyStr(valid_policies[5]), PyStr(valid_policies[1])},
      alphamax : {PyFloat(10, 1), PyInt(1)},
      opticurve : {PyBool(TRUE), PyBool(FALSE)} ]
\* line 231: the defaults
PotraceDefaults ==
    [invert |-> PyBool(FALSE), turdsize |-> PyInt(2),
     turnpolicy |-> PyStr(valid_policies[5]), alphamax |-> PyFloat(10, 1),
     opticurve |-> PyBool(TRUE)]

\* the truth value of a bool or a number
Truthy(v) == v.m # 0
\* str(v) of a number, and a str as it is
PyStrOf(v) == IF v.t = "str" THEN StrOf(v.s) ELSE PyNumText(v)
\* the text of a path
PathText(path) == "/" \o path[1] \o "/" \o path[2] \o path[3]

\* line 248: Image.eval(img, lambda x: 255 - x)
ImageEvalInvert(img) == [i \in 1..Len(img) |-> 255 - img[i]]

\* (mutant) the bitmap is saved as it was decoded
PotraceBitmap_NoInvert(image, invert) == image.gray

\* lines 243-250: the grayscale bitmap saved to temp_bmp_path
PotraceBitmap(image, invert) ==
    IF Truthy(invert) THEN ImageEvalInvert(image.gray) ELSE image.gray

\* (mutant) --longcurve is added when opticurve is true
PotraceCommand_LongcurveWhenSet(kwargs, temp_svg_path, temp_bmp_path) ==
    <<"potrace", "-s", "--svg", "--output", PathText(temp_svg_path)>>
    \o <<"--turdsize", PyStrOf(kwargs.turdsize)>>
    \o <<"--turnpolicy", PyStrOf(kwargs.turnpolicy)>>
    \o <<"--alphamax", PyStrOf(kwargs.alphamax)>>
    \o (IF Truthy(kwargs.opticurve) THEN <<"--longcurve">> ELSE <<>>)
    \o <<PathText(temp_bmp_path)>>

\* lines 253-269: cmd
PotraceCommand(kwargs, temp_svg_path, temp_bmp_path) ==
    <<"potrace", "-s", "--svg", "--output", PathText(temp_svg_path)>>
    \o <<"--turdsize", PyStrOf(kwargs.turdsize)>>
    \o <<"--turnpolicy", PyStrOf(kwargs.turnpolicy)>>
    \o <<"--alphamax", PyStrOf(kwargs.alphamax)>>
    \o (IF ~Truthy(kwargs.opticurve) THEN <<"--longcurve">> ELSE <<>>)
    \o <<PathText(temp_bmp_path)>>

\* what an engine writes to its output path: a root element with a width and
\* a height, then one mark per pixel that tells the dark pixels (below half
\* of the gray range) from the light ones
TracedMarkup(img) ==
    F_svg \o F_width \o F_height \o F_gt
    \o [i \in 1..Len(img) |-> IF img[i] < 128 THEN "#" ELSE "."]

\* line 274: the outcomes of subprocess.run(cmd, capture_output=True)
NotRun == [ran |-> FALSE, returncode |-> 0, stderr |-> ""]
ProcessResults ==
    { [ran |-> TRUE, returncode |-> 0, stderr |-> ""],
      [ran |-> TRUE, returncode |-> 1, stderr |-> "potrace: error"] }

NoRet == [raised |-> FALSE, text |-> <<>>]
\* return svg_content
ReturnsMarkup(svg_content) == [raised |-> FALSE, text |-> svg_content]
\* lines 293-295, 430-438: raise Exception(f"... processing failed: {str(e)}")
RaisesFailed(engine, detail) ==
    [raised |-> TRUE,
     text |-> <<IF engine = "potrace" THEN "Potrace processing failed: "
                ELSE "VTracer processing failed: ">> \o detail]

\* no engine call on an upload is under way
TraceIdle ==
    /\ eEngine = ""
    /\ eImage = [decodes |-> FALSE, format |-> "", length |-> 0, gray |-> <<>>]
    /\ eKwargs = PotraceDefaults
    /\ eInput = NoPath
    /\ eImg = <<>>
    /\ eSize = <<0, 0>>
    /\ eCmd = <<>>
    /\ eResult = NotRun
    /\ eSvg = <<>>
    /\ eFileSize = 0
    /\ eInvoked = FALSE
    /\ eRet = NoRet
    /\ ePc = "idle"

\* the call ends with an exception
TraceRaises(detail) ==
    /\ eRet' = RaisesFailed(eEngine, detail)
    /\ ePc' = "raised"

\* lines 235-250: the upload is written to temp_input_path, opened, converted
\* to grayscale, inverted when invert is set, and saved as a bitmap
PotraceSaveBitmap ==
    /\ ePc = "call"
    /\ eEngine = "potrace"
    /\ \E path \in NamedTemporaryFile(EmptyMapping) : eInput' = path
    /\ IF ~eImage.decodes
       THEN /\ TraceRaises(<<"cannot identify image file">>)
            /\ UNCHANGED <<eImg, eSize>>
       ELSE /\ eImg' = PotraceBitmap(eImage, eKwargs.invert)
            /\ eSize' = <<Len(eImage.gray), 1>>
            /\ ePc' = "build"
            /\ UNCHANGED eRet
    /\ UNCHANGED <<eEngine, eImage, eKwargs, eCmd, eResult, eSvg, eFileSize,
                   eInvoked>>
    /\ UNCHANGED <<vvars, nvars, hvars, fvars, cvars>>

\* lines 253-269
PotraceBuildCommand ==
    /\ ePc = "build"
    /\ eCmd' = PotraceCommand(eKwargs, ReplaceExt(eInput, ".svg"),
                              ReplaceExt(eInput, ".bmp"))
    /\ ePc' = "run"
    /\ UNCHANGED <<eEngine, eImage, eKwargs, eInput, eImg, eSize, eResult, eSvg,
                   eFileSize, eInvoked, eRet>>
    /\ UNCHANGED <<vvars, nvars, hvars, fvars, cvars>>

\* line 274: potrace runs; with exit code 0 it has written its output
PotraceSubprocess ==
    /\ ePc = "run"
    /\ \E result \in ProcessResults :
          /\ eResult' = result
          /\ eSvg' = IF result.returncode = 0 THEN TracedMarkup(eImg) ELSE <<>>
    /\ ePc' = "ran"
    /\ UNCHANGED <<eEngine, eImage, eKwargs, eInput, eImg, eSize, eCmd,
                   eFileSize, eInvoked, eRet>>
    /\ UNCHANGED <<vvars, nvars, hvars, fvars, cvars>>

\* lines 276-295
PotraceFinish ==
    /\ ePc = "ran"
    /\ eEngine = "potrace"
    /\ IF eResult.returncode # 0
       THEN TraceRaises(<<"Potrace failed: ", eResult.stderr>>)
       ELSE /\ eRet' = ReturnsMarkup(
                  normalize_svg_dimensions(eSvg, eSize[1], eSize[2], 0).ret)
            /\ ePc' = "returned"
    /\ UNCHANGED <<eEngine, eImage, eKwargs, eInput, eImg, eSize, eCmd, eResult,
                   eSvg, eFileSize, eInvoked>>
    /\ UNCHANGED <<vvars, nvars, hvars, fvars, cvars>>

\* lines 311-322: the upload is decoded and saved again as a PNG file, whose
\* length is set by the pixels and the encoder, not by the upload's length
VtracerSavePng ==
    /\ ePc = "call"
    /\ eEngine = "vtracer"
    /\ \E id \in uuid4({}) : eInput' = <<"tmp", id, ".png">>
    /\ IF ~eImage.decodes
       THEN /\ TraceRaises(<<"Failed to convert image to PNG format: ",
                             "cannot identify image file">>)
            /\ UNCHANGED <<eFileSize, eSize>>
       ELSE /\ \E n \in PngLengths : eFileSize' = n
            /\ eSize' = <<Len(eImage.gray), 1>>
            /\ ePc' = "preflight"
            /\ UNCHANGED eRet
    /\ UNCHANGED <<eEngine, eImage, eKwargs, eImg, eCmd, eResult, eSvg,
                   eInvoked>>
    /\ UNCHANGED <<vvars, nvars, hvars, fvars, cvars>>

\* lines 336-350: the file is there and readable; its length is compared
\* with 0 and with len(image_bytes)
VtracerSizeChecks ==
    /\ ePc = "preflight"
    /\ IF eFileSize = 0
       THEN TraceRaises(<<"Temporary input file is empty: ", PathText(eInput)>>)
       ELSE IF eFileSize # eImage.length
       THEN TraceRaises(<<"File size mismatch: expected ",
                          ToString(eImage.length), ", got ",
                          ToString(eFileSize)>>)
       ELSE ePc' = "verify" /\ UNCHANGED eRet
    /\ UNCHANGED <<eEngine, eImage, eKwargs, eInput, eImg, eSize, eCmd, eResult,
                   eSvg, eFileSize, eInvoked>>
    /\ UNCHANGED <<vvars, nvars, hvars, fvars, cvars>>

\* lines 352-373: the file verifies as an image; its bytes are read back and
\* their number is compared with len(image_bytes)
VtracerReadBack ==
    /\ ePc = "verify"
    /\ IF eFileSize # eImage.length
       THEN TraceRaises(<<"Cannot read file back before vtracer: ",
                          "File read verification failed">>)
       ELSE ePc' = "convert" /\ UNCHANGED eRet
    /\ UNCHANGED <<eEngine, eImage, eKwargs, eInput, eImg, eSize, eCmd, eResult,
                   eSvg, eFileSize, eInvoked>>
    /\ UNCHANGED <<vvars, nvars, hvars, fvars, cvars>>

\* lines 394-411: vtracer.convert_image_to_svg_py writes the markup or raises
VtracerConvertImage ==
    /\ ePc = "convert"
    /\ eInvoked' = TRUE
    /\ \E ok \in BOOLEAN :
          IF ok
          THEN /\ eSvg' = TracedMarkup(eImage.gray)
               /\ ePc' = "converted"
               /\ UNCHANGED eRet
          ELSE /\ TraceRaises(<<"VTracer failed with path '", PathText(eInput),
                                "': ", "error">>)
               /\ UNCHANGED eSvg
    /\ UNCHANGED <<eEngine, eImage, eKwargs, eInput, eImg, eSize, eCmd, eResult,
                   eFileSize>>
    /\ UNCHANGED <<vvars, nvars, hvars, fvars, cvars>>

\* lines 414-428
VtracerFinish ==
    /\ ePc = "converted"
    /\ eRet' = ReturnsMarkup(
          normalize_svg_dimensions(eSvg, eSize[1], eSize[2], 0).ret)
    /\ ePc' = "returned"
    /\ UNCHANGED <<eEngine, eImage, eKwargs, eInput, eImg, eSize, eCmd, eResult,
                   eSvg, eFileSize, eInvoked>>
    /\ UNCHANGED <<vvars, nvars, hvars, fvars, cvars>>

-----------------------------------------------------------------------------
(* The Access-Control-Allow-Origin header of a response. A request passes  *)
(* the standard CORSMiddleware (added last, so outermost), then            *)
(* CORSEnforcerMiddleware, then the exception handlers and the route; the  *)
(* response goes back the same way. CORSMiddleware is Starlette's: with a  *)
(* list of origins and allow_credentials it answers a preflight request    *)
(* itself, and on other responses it sets the header to an allowed origin. *)

ACAO == "Access-Control-Allow-Origin"
ACAC == "Access-Control-Allow-Credentials"
\* request.headers.get("origin") of a request without the header
NoOrigin == ""
LocalOrigin == "http://localhost:5173"
RenderOrigin == "https://tracer-frontend-z5u3.onrender.com"
\* line 21: the items of ALLOWED_ORIGINS between its commas: the default, one
\* origin, and the variable set to the empty text
OriginSettings == { <<LocalOrigin, RenderOrigin>>, <<RenderOrigin>>, <<"">> }
\* the Origin headers of the requests
RequestOrigins == {NoOrigin, LocalOrigin, RenderOrigin, "https://other.example"}
\* what the route does with the request
RouteOutcomes == {"result", "HTTPException", "Exception"}

NoHeaders == [h \in {} |-> ""]
NoResponse == [status |-> 0, headers |-> NoHeaders]

\* line 22: [o.strip() for o in allowed_origins_env.split(",") if o.strip()]
allowed_origins(items) == SelectSeq(items, LAMBDA o : o # "")
InList(x, list) == \E i \in 1..Len(list) : list[i] = x

\* lines 32, 44, 70, 85, 103
cors_origin(origin, allowed) ==
    IF InList(origin, allowed) THEN origin
    ELSE IF allowed # <<>> THEN allowed[1] ELSE "*"

\* the headers of lines 36-39, 75-78
CorsHeaders(origin, allowed) ==
    (ACAO :> cors_origin(origin, allowed)) @@ (ACAC :> "true")

\* lines 47-49: the headers are added when the response has none
EnforcedHeaders(headers, origin, allowed) ==
    IF ACAO \notin DOMAIN headers
    THEN CorsHeaders(origin, allowed) @@ headers
    ELSE headers

\* lines 57-63, CORSMiddleware on a preflight request: 200 with the origin
\* when it is allowed, 400 "Disallowed CORS origin" without the header
preflight_response(origin, allowed) ==
    IF InList(origin, allowed)
    THEN [status |-> 200, headers |-> (ACAO :> origin) @@ (ACAC :> "true")]
    ELSE [status |-> 400, headers |-> ("Vary" :> "Origin") @@ (ACAC :> "true")]

\* lines 57-63, CORSMiddleware on the response to any other request that has
\* an Origin header
simple_response(response, origin, allowed) ==
    [response EXCEPT !.headers =
        IF InList(origin, allowed)
        THEN (ACAO :> origin) @@ (ACAC :> "true") @@ response.headers
        ELSE (ACAC :> "true") @@ response.headers]

\* no request is on its way through the middlewares
CorsIdle ==
    /\ cEnv = <<>>
    /\ cOrigin = NoOrigin
    /\ cPreflight = FALSE
    /\ cOutcome = ""
    /\ cRaised = FALSE
    /\ cResp = NoResponse
    /\ cPc = "idle"

\* CORSMiddleware, request path: a preflight request (OPTIONS with an Origin
\* and an Access-Control-Request-Method header) is answered here
CorsReceive ==
    /\ cPc = "receive"
    /\ IF cOrigin # NoOrigin /\ cPreflight
       THEN /\ cResp' = preflight_response(cOrigin, allowed_origins(cEnv))
            /\ cPc' = "sent"
       ELSE /\ cPc' = "route"
            /\ UNCHANGED cResp
    /\ UNCHANGED <<cEnv, cOrigin, cPreflight, cOutcome, cRaised>>
    /\ UNCHANGED <<vvars, nvars, hvars, fvars, evars>>

\* the route returns a response (lines 448-451, 520-525)
RouteReturns ==
    /\ cPc = "route"
    /\ cOutcome = "result"
    /\ cResp' = [status |-> 200, headers |-> NoHeaders]
    /\ cPc' = "enforce"
    /\ UNCHANGED <<cEnv, cOrigin, cPreflight, cOutcome, cRaised>>
    /\ UNCHANGED <<vvars, nvars, hvars, fvars, evars>>

\* lines 66-79: the route raises HTTPException, http_exception_handler answers
RouteHTTPException ==
    /\ cPc = "route"
    /\ cOutcome = "HTTPException"
    /\ \E status \in {400, 500} :
          cResp' = [status |-> status,
                    headers |-> CorsHeaders(cOrigin, allowed_origins(cEnv))]
    /\ cPc' = "enforce"
    /\ UNCHANGED <<cEnv, cOrigin, cPreflight, cOutcome, cRaised>>
    /\ UNCHANGED <<vvars, nvars, hvars, fvars, evars>>

\* another exception leaves the route: it goes up to the call_next of line 28
RouteRaises ==
    /\ cPc = "route"
    /\ cOutcome = "Exception"
    /\ cRaised' = TRUE
    /\ cPc' = "enforce"
    /\ UNCHANGED <<cEnv, cOrigin, cPreflight, cOutcome, cResp>>
    /\ UNCHANGED <<vvars, nvars, hvars, fvars, evars>>

\* lines 26-51: CORSEnforcerMiddleware.dispatch
CORSEnforcerDispatch ==
    /\ cPc = "enforce"
    /\ LET allowed == allowed_origins(cEnv)
           response == IF cRaised
                       THEN [status |-> 500,
                             headers |-> CorsHeaders(cOrigin, allowed)]
                       ELSE cResp
       IN  cResp' = [response EXCEPT !.headers =
                        EnforcedHeaders(response.headers, cOrigin, allowed)]
    /\ cRaised' = FALSE
    /\ cPc' = "send"
    /\ UNCHANGED <<cEnv, cOrigin, cPreflight, cOutcome>>
    /\ UNCHANGED <<vvars, nvars, hvars, fvars, evars>>

\* CORSMiddleware, response path
CorsSend ==
    /\ cPc = "send"
    /\ cResp' = IF cOrigin = NoOrigin THEN cResp
                ELSE simple_response(cResp, cOrigin, allowed_origins(cEnv))
    /\ cPc' = "sent"
    /\ UNCHANGED <<cEnv, cOrigin, cPreflight, cOutcome, cRaised>>
    /\ UNCHANGED <<vvars, nvars, hvars, fvars, evars>>

-----------------------------------------------------------------------------
(* POST /vectorize: vectorize_image                                        *)

MAX_FILE_SIZE == 20 * 1024 * 1024
allowed_types == {"image/png", "image/jpeg", "image/gif"}
EngineNames == {"potrace", "vtracer"}

NoExc == [cls |-> "", status |-> 0, msg |-> <<>>]
NoResp == [status |-> 0, detail |-> <<>>, vectorized |-> EmptyMapping,
           parameters_used |-> EmptyMapping]

\* raise HTTPException(status_code, detail)
HTTPExc(status, detail) ==
    [cls |-> "HTTPException", status |-> status, msg |-> detail]
\* an exception of another class with its message
Exc(cls, msg) == [cls |-> cls, status |-> 0, msg |-> msg]

\* (mutant) the catch-all clause comes before the ParameterValidationError one
ExceptClauses_CatchAllFirst(e) ==
    IF e.cls = "HTTPException" THEN e
    ELSE HTTPExc(500, <<"Processing failed: ">> \o e.msg)

\* lines 527-533: what leaves vectorize_image for an exception raised in try
ExceptClauses(e) ==
    IF e.cls = "HTTPException" THEN e
    ELSE IF e.cls = PVE
    THEN HTTPExc(400, <<"Parameter validation failed: ">> \o e.msg)
    ELSE HTTPExc(500, <<"Processing failed: ">> \o e.msg)

\* lines 66-79: the response of http_exception_handler
http_exception_handler(e) ==
    [status |-> e.status, detail |-> e.msg, vectorized |-> EmptyMapping,
     parameters_used |-> EmptyMapping]

\* an exception left the try block: the request ends with its response
Abort(e) ==
    /\ hExc' = e
    /\ hResp' = http_exception_handler(ExceptClauses(e))
    /\ hPc' = "done"

\* (mutant) only the block of the selected engine is validated
ShouldValidate_SelectedOnly(block, params, selected_method) ==
    /\ block \in DOMAIN params
    /\ selected_method \in EngineNames => selected_method = block

\* lines 477, 479: if 'potrace' in params / if 'vtracer' in params
ShouldValidate(block, params, selected_method) == block \in DOMAIN params

\* lines 488-501: the engines the request runs, in order
EnginesToRun(selected_method) ==
    IF selected_method # "" /\ selected_method \in EngineNames
    THEN <<selected_method>>
    ELSE <<"potrace", "vtracer">>

\* the keyword parameters of potrace_vectorize and vtracer_vectorize
Keywords(engine) ==
    IF engine = "potrace"
    THEN {"invert", "turdsize", "turnpolicy", "alphamax", "opticurve"}
    ELSE { validations[i].param : i \in 1..Len(validations) }

\* params.get(engine, {})
BlockOf(params, engine) ==
    IF engine \in DOMAIN params THEN params[engine] ELSE EmptyMapping

\* the value holds a nan (json.dumps(..., allow_nan=False) raises on it)
HasNaN(params) ==
    \E b \in DOMAIN params : \E k \in DOMAIN params[b] : params[b][k].sp = "nan"

-----------------------------------------------------------------------------
(* The requests of the model *)

One(key, v) == key :> v

HandlerPotraceBlocks ==
    { EmptyMapping,
      One("turdsize", PyInt(101)),
      One("turdsize", PyStr(T_2)),
      One("turdsize", PyInt(2)) @@ One("invert", PyBool(TRUE)),
      One("alphamax", PyStr(T_nan)),
      One("extra", PyInt(7)),
      PyInt(5) }

HandlerVtracerBlocks ==
    { EmptyMapping,
      One("colormode", PyStr(T_abc)),
      One("color_precision", PyStr(T_2)),
      One("color_precision", PyInt(9)),
      One("filter_speckle", PyBool(TRUE)),
      One("extra", PyInt(7)) }

\* the parsed parameters objects: any of the two engine blocks, or none, with
\* or without a block for an unknown method
EngineBlocks ==
    { EmptyMapping }
    \cup { One("potrace", p) : p \in HandlerPotraceBlocks }
    \cup { One("vtracer", v) : v \in HandlerVtracerBlocks }
    \cup { One("potrace", p) @@ One("vtracer", v) :
             p \in HandlerPotraceBlocks, v \in HandlerVtracerBlocks }

\* a block for a method the service does not know
UnknownBlock == One("other", One("turdsize", PyStr(T_2)))

ParameterObjects ==
    EngineBlocks \cup { UnknownBlock @@ o : o \in EngineBlocks }

\* the parameters form field: text that is not valid JSON (deep: it opens more
\* nested arrays or objects than the interpreter's recursion limit), the text
\* of an object, or the text of another JSON value: the number 5 or the empty
\* array [] (top names the type of the parsed value; value is its entries)
ParameterFields ==
    { [json |-> FALSE, deep |-> d, top |-> "", value |-> EmptyMapping] :
        d \in BOOLEAN }
    \cup { [json |-> TRUE, deep |-> FALSE, top |-> "object", value |-> o] :
             o \in ParameterObjects }
    \cup { [json |-> TRUE, deep |-> FALSE, top |-> t, value |-> EmptyMapping] :
             t \in {"number", "array"} }

Requests ==
    [ size : {1, MAX_FILE_SIZE, MAX_FILE_SIZE + 1},
      content_type : {"", "image/png", "text/plain"},
      parameters : ParameterFields,
      selected_method : {"", "potrace", "vtracer", "other"} ]

HandlerIdle ==
    /\ hReq = [size |-> 0, content_type |-> "",
               parameters |-> [json |-> TRUE, deep |-> FALSE, top |-> "object",
                               value |-> EmptyMapping],
               selected_method |-> ""]
    /\ hPc = "idle"
    /\ hParams = EmptyMapping
    /\ hValidated = {}
    /\ hExc = NoExc
    /\ hCalls = <<>>
    /\ hResults = EmptyMapping
    /\ hResp = NoResp

Init ==
    /\ hReq \in Requests
    /\ hPc = "read"
    /\ hParams = EmptyMapping
    /\ hValidated = {}
    /\ hExc = NoExc
    /\ hCalls = <<>>
    /\ hResults = EmptyMapping
    /\ hResp = NoResp
    /\ ValIdle
    /\ NormIdle
    /\ FilesIdle
    /\ TraceIdle
    /\ CorsIdle

\* lines 457-462
ReadFile ==
    /\ hPc = "read"
    /\ IF hReq.size > MAX_FILE_SIZE
       THEN Abort(HTTPExc(400, <<"File size exceeds 20MB limit">>))
       ELSE hPc' = "check_type" /\ UNCHANGED <<hExc, hResp>>
    /\ UNCHANGED <<hReq, hParams, hValidated, hCalls, hResults>>
    /\ UNCHANGED <<vvars, nvars, fvars, evars, cvars>>

\* lines 464-467
CheckContentType ==
    /\ hPc = "check_type"
    /\ IF hReq.content_type = "" \/ hReq.content_type \notin allowed_types
       THEN Abort(HTTPExc(400, <<"File must be PNG, JPEG, or GIF format">>))
       ELSE hPc' = "parse" /\ UNCHANGED <<hExc, hResp>>
    /\ UNCHANGED <<hReq, hParams, hValidated, hCalls, hResults>>
    /\ UNCHANGED <<vvars, nvars, fvars, evars, cvars>>

\* line 472: what json.loads raises on text that is not valid JSON, as it
\* leaves lines 471-474: JSONDecodeError becomes the HTTPException of line
\* 474; on deeply nested text the decoder raises RecursionError instead
json_loads_raises(field) ==
    IF field.deep
    THEN Exc("RecursionError", <<"maximum recursion depth exceeded">>)
    ELSE HTTPExc(400, <<"Invalid JSON in parameters: ", "JSONDecodeError">>)

\* lines 469-474
ParseParameters ==
    /\ hPc = "parse"
    /\ IF ~hReq.parameters.json
       THEN /\ Abort(json_loads_raises(hReq.parameters))
            /\ UNCHANGED hParams
       ELSE /\ hParams' = hReq.parameters.value
            /\ hPc' = "validate_potrace"
            /\ UNCHANGED <<hExc, hResp>>
    /\ UNCHANGED <<hReq, hValidated, hCalls, hResults>>
    /\ UNCHANGED <<vvars, nvars, fvars, evars, cvars>>

\* (mutant) the validator works on a copy of the block
ValidateBlock_OnCopy(block, r, next) ==
    /\ hParams' = hParams
    /\ IF r.exc # ""
       THEN Abort(Exc(r.exc, r.msg)) /\ UNCHANGED hValidated
       ELSE /\ hValidated' = hValidated \cup {block}
            /\ hPc' = next
            /\ UNCHANGED <<hExc, hResp>>

\* one validator call of lines 477-480: the block is mutated in place
ValidateBlock(block, r, next) ==
    /\ hParams' = [hParams EXCEPT ![block] = r.params]
    /\ IF r.exc # ""
       THEN Abort(Exc(r.exc, r.msg)) /\ UNCHANGED hValidated
       ELSE /\ hValidated' = hValidated \cup {block}
            /\ hPc' = next
            /\ UNCHANGED <<hExc, hResp>>

\* lines 477-478; `'potrace' in params` raises TypeError when params is a
\* number
ValidatePotrace ==
    /\ hPc = "validate_potrace"
    /\ IF hReq.parameters.top = "number"
       THEN /\ Abort(Exc("TypeError",
                         <<"argument of type 'int' is not iterable">>))
            /\ UNCHANGED <<hParams, hValidated>>
       ELSE IF ShouldValidate("potrace", hParams, hReq.selected_method)
       THEN ValidateBlock("potrace", validate_potrace_params(hParams["potrace"]),
                          "validate_vtracer")
       ELSE /\ hPc' = "validate_vtracer"
            /\ UNCHANGED <<hParams, hValidated, hExc, hResp>>
    /\ UNCHANGED <<hReq, hCalls, hResults>>
    /\ UNCHANGED <<vvars, nvars, fvars, evars, cvars>>

\* lines 479-480
ValidateVtracer ==
    /\ hPc = "validate_vtracer"
    /\ IF ShouldValidate("vtracer", hParams, hReq.selected_method)
       THEN ValidateBlock("vtracer", validate_vtracer_params(hParams["vtracer"]),
                          "run")
       ELSE /\ hPc' = "run"
            /\ UNCHANGED <<hParams, hValidated, hExc, hResp>>
    /\ UNCHANGED <<hReq, hCalls, hResults>>
    /\ UNCHANGED <<vvars, nvars, fvars, evars, cvars>>

\* the engine whose turn it is: the first of EnginesToRun without a result
NextEngine ==
    LET todo == EnginesToRun(hReq.selected_method)
        left == { i \in 1..Len(todo) : todo[i] \notin DOMAIN hResults }
    IN  IF left = {} THEN ""
        ELSE todo[CHOOSE i \in left : \A j \in left : i <= j]

\* one try/except of lines 490-515: the engine is called with the block as
\* its keyword arguments; a key that is no parameter of the engine makes the
\* call raise TypeError before its body runs; the engine returns markup or
\* raises, and what it raises becomes the "Error: ..." text of its slot.
\* When params is an array, params.get raises AttributeError inside the try:
\* the slot gets its text and the engine is not called
RunEngine(engine) ==
    /\ hPc = "run"
    /\ NextEngine = engine
    /\ IF hReq.parameters.top = "array"
       THEN /\ hResults' = (engine :> <<"Error: ",
                                        "'list' object has no attribute 'get'">>)
                           @@ hResults
            /\ UNCHANGED hCalls
       ELSE
       LET kwargs == BlockOf(hParams, engine)
           binds == DOMAIN kwargs \subseteq Keywords(engine)
       IN  \E fault \in IF binds THEN {"none"} \cup EngineFaults(engine)
                         ELSE {"TypeError"} :
             LET r == IF ~binds
                      THEN [raised |-> TRUE,
                            text |-> <<"unexpected keyword argument">>]
                      ELSE IF engine = "potrace" THEN potrace_vectorize(fault)
                      ELSE vtracer_vectorize(fault)
             IN
             /\ hCalls' = Append(hCalls, [engine |-> engine, kwargs |-> kwargs,
                                           entered |-> binds, fault |-> fault])
             /\ hResults' =
                  (engine :> IF r.raised THEN <<"Error: ">> \o r.text
                             ELSE r.text) @@ hResults
    /\ UNCHANGED <<hReq, hPc, hParams, hValidated, hExc, hResp>>
    /\ UNCHANGED <<vvars, nvars, fvars, evars, cvars>>

RunPotrace == RunEngine("potrace")
RunVtracer == RunEngine("vtracer")

\* lines 517-525: the JSON response; its rendering raises ValueError on nan
Respond ==
    /\ hPc = "run"
    /\ NextEngine = ""
    /\ IF HasNaN(hParams)
       THEN Abort(Exc("ValueError",
                      <<"Out of range float values are not JSON compliant">>))
       ELSE /\ hResp' = [status |-> 200, detail |-> <<>>,
                         vectorized |-> hResults, parameters_used |-> hParams]
            /\ hPc' = "done"
            /\ UNCHANGED hExc
    /\ UNCHANGED <<hReq, hParams, hValidated, hCalls, hResults>>
    /\ UNCHANGED <<vvars, nvars, fvars, evars, cvars>>

Next ==
    \/ ReadFile
    \/ CheckContentType
    \/ ParseParameters
    \/ ValidatePotrace
    \/ ValidateVtracer
    \/ RunPotrace
    \/ RunVtracer
    \/ Respond

Spec == Init /\ [][Next]_vars

-----------------------------------------------------------------------------
(* Validator runs and normalizer calls *)

InitV ==
    /\ vEngine \in {"potrace", "vtracer"}
    /\ vIn \in Mappings(IF vEngine = "potrace" THEN PotraceKeys ELSE VtracerKeys)
    /\ vParams = vIn
    /\ vExc = ""
    /\ vMsg = <<>>
    /\ vPc = "call"
    /\ NormIdle
    /\ HandlerIdle
    /\ FilesIdle
    /\ TraceIdle
    /\ CorsIdle

Finish(r) ==
    /\ vParams' = r.params
    /\ vExc' = r.exc
    /\ vMsg' = r.msg
    /\ vPc' = IF r.exc = "" THEN "returned" ELSE "raised"
    /\ UNCHANGED <<vEngine, vIn>>
    /\ UNCHANGED <<nvars, hvars, fvars, evars, cvars>>

CallValidatePotrace ==
    /\ vPc = "call"
    /\ vEngine = "potrace"
    /\ Finish(validate_potrace_params(vParams))

CallValidateVtracer ==
    /\ vPc = "call"
    /\ vEngine = "vtracer"
    /\ Finish(validate_vtracer_params(vParams))

NextV == CallValidatePotrace \/ CallValidateVtracer

SpecV == InitV /\ [][NextV]_vars

InitN ==
    /\ nIn \in Markups
    /\ nDims \in Dimensions
    /\ nOut = <<>>
    /\ nFail = 0
    /\ nWarned = FALSE
    /\ nPc = "call"
    /\ ValIdle
    /\ HandlerIdle
    /\ FilesIdle
    /\ TraceIdle
    /\ CorsIdle

CallNormalize ==
    /\ nPc = "call"
    /\ \E fail \in FailPoints :
          LET r == normalize_svg_dimensions(nIn, nDims[1], nDims[2], fail) IN
          /\ nOut' = r.ret
          /\ nFail' = fail
          /\ nWarned' = r.warned
          /\ nPc' = IF r.exc = "" THEN "returned" ELSE "raised"
    /\ UNCHANGED <<nIn, nDims>>
    /\ UNCHANGED <<vvars, hvars, fvars, evars, cvars>>

NextN == CallNormalize

SpecN == InitN /\ [][NextN]_vars

InitF ==
    /\ FilesIdle
    /\ TraceIdle
    /\ CorsIdle
    /\ ValIdle
    /\ NormIdle
    /\ HandlerIdle

NextF ==
    \E c \in Calls :
        \/ PotraceCreateInput(c)
        \/ PotraceToBitmap(c)
        \/ PotraceRunCommand(c)
        \/ PotraceReadOutput(c)
        \/ PotraceCleanup(c)
        \/ VtracerPaths(c)
        \/ VtracerToPng(c)
        \/ VtracerPreflight(c)
        \/ VtracerRunEngine(c)
        \/ VtracerReadOutput(c)
        \/ VtracerCleanup(c)
        \/ VtracerExceptCleanup(c)

SpecF == InitF /\ [][NextF]_vars

InitE ==
    /\ eEngine \in EngineNames
    /\ eImage \in Uploads
    /\ eKwargs \in IF eEngine = "potrace" THEN PotraceArgs ELSE {PotraceDefaults}
    /\ eInput = NoPath
    /\ eImg = <<>>
    /\ eSize = <<0, 0>>
    /\ eCmd = <<>>
    /\ eResult = NotRun
    /\ eSvg = <<>>
    /\ eFileSize = 0
    /\ eInvoked = FALSE
    /\ eRet = NoRet
    /\ ePc = "call"
    /\ ValIdle
    /\ NormIdle
    /\ HandlerIdle
    /\ FilesIdle
    /\ CorsIdle

NextE ==
    \/ PotraceSaveBitmap
    \/ PotraceBuildCommand
    \/ PotraceSubprocess
    \/ PotraceFinish
    \/ VtracerSavePng
    \/ VtracerSizeChecks
    \/ VtracerReadBack
    \/ VtracerConvertImage
    \/ VtracerFinish

SpecE == InitE /\ [][NextE]_vars

InitC ==
    /\ cEnv \in OriginSettings
    /\ cOrigin \in RequestOrigins
    /\ cPreflight \in BOOLEAN
    /\ cOutcome \in RouteOutcomes
    /\ cRaised = FALSE
    /\ cResp = NoResponse
    /\ cPc = "receive"
    /\ ValIdle
    /\ NormIdle
    /\ HandlerIdle
    /\ FilesIdle
    /\ TraceIdle

NextC ==
    \/ CorsReceive
    \/ RouteReturns
    \/ RouteHTTPException
    \/ RouteRaises
    \/ CORSEnforcerDispatch
    \/ CorsSend

SpecC == InitC /\ [][NextC]_vars

-----------------------------------------------------------------------------
(* Claims about POST /vectorize (specification Spec)                       *)

\* the upload and the parameters field get the request as far as validation
ReachesValidation ==
    /\ hReq.size <= MAX_FILE_SIZE
    /\ hReq.content_type \in allowed_types
    /\ hReq.parameters.json
\* the block the client sent for an engine
SentBlock(engine) == hReq.parameters.value[engine]
Sent(engine) == engine \in DOMAIN hReq.parameters.value

\* the block passes its engine's validator as it stands
PassesValidator(engine, block) ==
    IF engine = "potrace" THEN validate_potrace_params(block).exc = ""
    ELSE validate_vtracer_params(block).exc = ""

\* the detail of the response holds text
DetailContains(text) ==
    \E i \in 1..Len(hResp.detail) : \E j \in i..Len(hResp.detail) :
        Join(SubSeq(hResp.detail, i, j), "") = text

\* C1: an engine is called only after the validator of every engine block of
\* the request has returned, each block then passing the validator's checks;
\* once a validator has raised, no engine is ever called.
C1_NoEngineWithoutValidation ==
    /\ hCalls # <<>> =>
          \A b \in EngineNames \cap DOMAIN hParams :
              b \in hValidated /\ PassesValidator(b, hParams[b])
    /\ hExc.cls = PVE => hCalls = <<>>

C1_Witness ==
    /\ Len(hCalls) = 1
    /\ hReq.selected_method = "potrace"
    /\ Sent("potrace")
    /\ SentBlock("potrace") = One("turdsize", PyStr(T_2))
    /\ hCalls[1].kwargs = One("turdsize", PyInt(2))
    /\ Sent("vtracer")
    /\ hValidated = EngineNames

\* C6: a ParameterValidationError ends the request with status 400 and a
\* detail that holds the validator's message, never 500 or 200: potrace
\* turdsize=101 gives "turdsize must be a number between 0 and 100", vtracer
\* colormode="abc" gives "colormode must be one of: color, binary".
C6_ValidationErrorIs400 ==
    hPc = "done" =>
        /\ hExc.cls = PVE =>
              /\ hResp.status = 400
              /\ hResp.detail = <<"Parameter validation failed: ">> \o hExc.msg
        /\ (/\ ReachesValidation
            /\ Sent("potrace")
            /\ SentBlock("potrace") = One("turdsize", PyInt(101))) =>
              /\ hResp.status = 400
              /\ DetailContains("turdsize must be a number between 0 and 100")
        /\ (/\ ReachesValidation
            /\ ~Sent("potrace")
            /\ Sent("vtracer")
            /\ SentBlock("vtracer") = One("colormode", PyStr(T_abc))) =>
              /\ hResp.status = 400
              /\ DetailContains("colormode must be one of: color, binary")

C6_Witness ==
    /\ hPc = "done"
    /\ hExc.cls = PVE
    /\ hResp.status = 400
    /\ Sent("vtracer")
    /\ SentBlock("vtracer") = One("colormode", PyStr(T_abc))
    /\ DetailContains("colormode must be one of: color, binary")

-----------------------------------------------------------------------------
(* The declared constraints of the two engines' parameters (the tables of  *)
(* the design), used to state the claims                                   *)

DeclaredRange(key) ==
    CASE key = "turdsize" -> <<PyInt(0), PyInt(100)>>
      [] key = "alphamax" -> <<PyFloat(0, 1), PyFloat(20, 1)>>
      [] key = "color_precision" -> <<PyInt(1), PyInt(8)>>
      [] key = "filter_speckle" -> <<PyInt(1), PyInt(100)>>
      [] key = "corner_threshold" -> <<PyInt(0), PyInt(180)>>
      [] key = "length_threshold" -> <<PyFloat(0, 1), PyFloat(500, 1)>>
      [] key = "max_iterations" -> <<PyInt(1), PyInt(100)>>
      [] key = "splice_threshold" -> <<PyInt(0), PyInt(180)>>
      [] key = "path_precision" -> <<PyInt(1), PyInt(10)>>

DeclaredValues(key) ==
    CASE key = "turnpolicy" ->
            { <<"b","l","a","c","k">>, <<"w","h","i","t","e">>,
              <<"l","e","f","t">>, <<"r","i","g","h","t">>,
              <<"m","i","n","o","r","i","t","y">>,
              <<"m","a","j","o","r","i","t","y">>, <<"r","a","n","d","o","m">> }
      [] key = "colormode" ->
            { <<"c","o","l","o","r">>, <<"b","i","n","a","r","y">> }

EnumKeys == {"turnpolicy", "colormode"}
BooleanKeys == {"invert", "opticurve"}
\* the keys whose strings are parsed as an integer when they hold no point
IntCoercibleKeys == NumericKeys \ {"alphamax"}

\* an int or a float that is a number (neither a bool nor nan)
IsPlainNumber(v) == v.t \in {"int", "float"} /\ v.sp # "nan"
InDeclaredRange(key, v) ==
    /\ ~PyLt(v, DeclaredRange(key)[1])
    /\ ~PyLt(DeclaredRange(key)[2], v)

\* decimal numerals: an optional sign and digits, with at most one point
IsIntNumeral(chars) == AllDigits(Unsigned(chars))
IsPointNumeral(chars) ==
    LET body == Unsigned(chars)
        n == Cardinality({ i \in 1..Len(body) : body[i] = "." })
    IN  /\ n = 1
        /\ Len(body) > 1
        /\ \A i \in 1..Len(body) : body[i] = "." \/ IsDigit(body[i])
IsNumeral(chars) == IsIntNumeral(chars) \/ IsPointNumeral(chars)
DigitsOnly(chars) == SelectSeq(chars, IsDigit)
\* the number a numeral denotes, as <<m, d>>: m / 10^d
NumeralValue(chars) ==
    LET body == Unsigned(chars) IN
    << SignOf(chars) * DigitsValue(DigitsOnly(body)),
       IF IsIntNumeral(chars) THEN 0 ELSE Len(body) - DotAt(body) >>
DenotesNumeral(v, chars) ==
    /\ v.t \in {"int", "float"}
    /\ v.sp = ""
    /\ v.m * Pow10(NumeralValue(chars)[2]) = NumeralValue(chars)[1] * Pow10(v.d)

\* the value satisfies the declared type, enum and range of its key
DeclaredOK(key, v) ==
    IF key \in NumericKeys
    THEN \/ IsPlainNumber(v) /\ InDeclaredRange(key, v)
         \/ /\ v.t = "str"
            /\ IsNumeral(v.s)
            /\ InDeclaredRange(key, PyFloat(NumeralValue(v.s)[1],
                                            NumeralValue(v.s)[2]))
    ELSE IF key \in EnumKeys THEN v.t = "str" /\ v.s \in DeclaredValues(key)
    ELSE IF key \in BooleanKeys THEN v.t = "bool"
    ELSE TRUE

\* the three kinds of violation of C2
Violates(key, v) ==
    \/ key \in NumericKeys /\ IsPlainNumber(v) /\ ~InDeclaredRange(key, v)
    \/ key \in EnumKeys /\ v.t = "str" /\ v.s \notin DeclaredValues(key)
    \/ key \in BooleanKeys /\ v.t # "bool"

RaisedPVE == vPc = "raised" /\ vExc = PVE

C3_ValidAccepted ==
    (vPc # "call" /\ \A k \in DOMAIN vIn : DeclaredOK(k, vIn[k]))
        => /\ vPc = "returned"
           /\ DOMAIN vParams = DOMAIN vIn
           /\ \A k \in DOMAIN vIn :
                IF k \in NumericKeys /\ vIn[k].t = "str"
                THEN DenotesNumeral(vParams[k], vIn[k].s)
                ELSE vParams[k] = vIn[k]

C3_Witness ==
    /\ vPc = "returned"
    /\ DOMAIN vIn = {"corner_threshold", "color_precision"}
    /\ vIn["corner_threshold"] = PyInt(180)
    /\ vIn["color_precision"] = PyStr(T_2)
    /\ vParams["color_precision"] = PyInt(2)

\* C4: a boolean given for a numeric key, and a number given for invert or
\* opticurve, is rejected with ParameterValidationError.
C4_BooleanRejected ==
    (/\ vPc # "call"
     /\ \E k \in DOMAIN vIn :
            \/ k \in NumericKeys /\ vIn[k].t = "bool"
            \/ k \in BooleanKeys /\ vIn[k].t \in {"int", "float"})
        => RaisedPVE

\* the place of a key in the order the validator of the run processes keys
KeyIndex(key) ==
    IF \E i \in 1..Len(validations) : validations[i].param = key
    THEN CHOOSE i \in 1..Len(validations) : validations[i].param = key
    ELSE 0

\* the run got as far as converting key: validate_potrace_params converts
\* turdsize in its first statement; validate_vtracer_params takes the table
\* entries in order and stops at the first that raises
Reached(key) ==
    \/ vEngine = "potrace"
    \/ vPc = "returned"
    \/ vPc = "raised" /\ KeyIndex(vMsg[1]) >= KeyIndex(key)

\* the outcome C5 states for the string value of one integer-coercible key
CoercedAsStated(k) ==
    LET text == vIn[k].s
        body == Strip(text)
    IN  IF ~HasDot(text) /\ IsIntNumeral(body)
        THEN vParams[k] = PyInt(NumeralValue(body)[1])
        ELSE IF HasDot(text) /\ IsPointNumeral(body)
        THEN vParams[k] = PyFloat(NumeralValue(body)[1], NumeralValue(body)[2])
        ELSE /\ RaisedPVE
             /\ vMsg = <<k, " must be a valid number">>
             /\ vParams[k] = vIn[k]

StringKeys == { k \in DOMAIN vIn \cap IntCoercibleKeys : vIn[k].t = "str" }

\* C5 as stated: whatever else the mapping holds, the string value of an
\* integer-coercible key is replaced by its integer (no point) or its float
\* (a point), and a string that does not parse raises "<key> must be a valid
\* number".
C5_Original ==
    vPc # "call" => \A k \in StringKeys : CoercedAsStated(k)

\* C5 amended: the same, for every key the run got as far as converting (no
\* recognized key processed before it has raised).
C5_CoercionWhenReached ==
    vPc # "call" => \A k \in StringKeys : Reached(k) => CoercedAsStated(k)

C5_Witness ==
    /\ vPc = "returned"
    /\ DOMAIN vIn = {"color_precision", "filter_speckle"}
    /\ vIn["color_precision"] = PyStr(T_2p5)
    /\ vParams["color_precision"] = PyFloat(25, 1)
    /\ vIn["filter_speckle"] = PyStr(T_2)
    /\ vParams["filter_speckle"] = PyInt(2)

-----------------------------------------------------------------------------
(* Claims about normalize_svg_dimensions (specification SpecN)             *)

\* the places where lit occurs in text
Occurrences(text, lit) == { i \in 1..Len(text) : StartsWithAt(text, i, lit) }
\* text holds an attribute  lit..."  (lit is  name="): lit with a closing quote
HasAttribute(text, lit) ==
    \E i \in Occurrences(text, lit) :
        \E j \in (i + Len(lit))..Len(text) : text[j] = QUOTE
\* the opening tag of the first svg element: from its "<svg" to its ">"
RootStart(text) == CHOOSE i \in Occurrences(text, L_svg) :
                        \A j \in Occurrences(text, L_svg) : i <= j
RootEnd(text) == FirstFrom(text, RootStart(text), ">")

\* C7: the output holds exactly one viewBox attribute, on the root svg
\* element, with the value "0 0 {width} {height}" (stated for the calls in
\* which no statement fails and the markup has an svg element).
C7_ExactlyOneViewBox ==
    (nPc = "returned" /\ nFail = 0 /\ Occurrences(nIn, L_svg) # {})
        => /\ Cardinality(Occurrences(nOut, L_viewBoxAttr)) = 1
           /\ \A i \in Occurrences(nOut, L_viewBoxAttr) :
                /\ StartsWithAt(nOut, i, new_viewbox(nDims[1], nDims[2]))
                /\ Occurrences(nOut, L_svg) # {}
                /\ RootStart(nOut) < i
                /\ i < RootEnd(nOut)

\* C8: the call never raises, and a call in which a statement fails returns
\* the markup exactly as it was passed in, after printing the warning.
C8_FailureReturnsOriginal ==
    nPc # "call"
        => /\ nPc = "returned"
           /\ nFail # 0 => (nWarned /\ nOut = nIn)

C10_NoWidthHeight ==
    (nPc = "returned" /\ nFail = 0)
        => ~HasAttribute(nOut, L_width) /\ ~HasAttribute(nOut, L_height)

\* C11: a call with the dimensions 100 x 50 on markup that has an svg element
\* and no viewBox attribute returns markup in which viewBox="0 0 100 50"
\* occurs exactly once (stated for the calls in which no statement fails).
C11_ViewBoxOnce ==
    (/\ nPc = "returned"
     /\ nFail = 0
     /\ nDims = <<100, 50>>
     /\ Occurrences(nIn, L_svg) # {}
     /\ ~Contains(nIn, L_viewBoxEq))
        => Cardinality(Occurrences(nOut, new_viewbox(100, 50))) = 1

-----------------------------------------------------------------------------
(* Claims about the engine calls of POST /vectorize (specification Spec)   *)

\* the calls made to the engine
CallsOf(engine) == { i \in 1..Len(hCalls) : hCalls[i].engine = engine }
\* the engine was entered and went wrong during the trace
FailedInTrace(call) == call.entered /\ call.fault # "none"
\* the slot is a text starting with "Error: "
IsErrorSlot(slot) == Len(slot) > 0 /\ slot[1] = "Error: "

\* C12: once an engine call has failed during the trace, the request still
\* ends with status 200, every engine the request asks for has been called
\* once, the slot of each failed call starts with "Error: " and the slot of
\* each call that went well holds its markup.
C12_EngineFailureIsolated ==
    (hPc = "done" /\ \E i \in 1..Len(hCalls) : FailedInTrace(hCalls[i]))
        => /\ hResp.status = 200
           /\ \A i \in 1..Len(EnginesToRun(hReq.selected_method)) :
                LET e == EnginesToRun(hReq.selected_method)[i] IN
                /\ Cardinality(CallsOf(e)) = 1
                /\ e \in DOMAIN hResp.vectorized
                /\ \A j \in CallsOf(e) :
                     IF hCalls[j].entered /\ hCalls[j].fault = "none"
                     THEN hResp.vectorized[e] = Markup
                     ELSE IsErrorSlot(hResp.vectorized[e])

-----------------------------------------------------------------------------
(* Claims about the temporary files of the engine calls (specification     *)
(* SpecF)                                                                  *)

\* the call has returned or raised
Ended(call) == call.pc \in {"returned", "raised"}
\* the call has started and not ended
Active(call) == call.pc \notin {"idle", "returned", "raised"}
\* the temporary paths of a call
PathsOf(call) == {call.input, call.svg, call.bmp} \ {NoPath}
\* the files on disk that the call created
FilesOf(c) == { p \in DOMAIN fFiles : fFiles[p] = c }

\* C13: once a potrace_vectorize call has returned or raised, none of its
\* three temporary files (.png, .bmp, .svg) is on disk.
C13_PotraceFilesRemoved ==
    \A c \in Calls :
        (fCall[c].engine = "potrace" /\ Ended(fCall[c]))
            => /\ PathsOf(fCall[c]) \cap DOMAIN fFiles = {}
               /\ FilesOf(c) = {}

-----------------------------------------------------------------------------
(* Claims about the requests of POST /vectorize (specification Spec)       *)

\* the engines called, in the order of the calls
EnginesCalled == [i \in 1..Len(hCalls) |-> hCalls[i].engine]
\* a validator has been invoked: it returned or it raised
ValidatorInvoked == hValidated # {} \/ hExc.cls = PVE
\* the request has gone through all its engine calls
EnginesDone ==
    \/ hPc = "run" /\ NextEngine = ""
    \/ hPc = "done" /\ (hResp.status = 200 \/ hExc.cls = "ValueError")

\* the detail of the first of the three checks the request fails
RejectionDetail ==
    IF hReq.size > MAX_FILE_SIZE THEN <<"File size exceeds 20MB limit">>
    ELSE IF hReq.content_type \notin {"image/png", "image/jpeg", "image/gif"}
    THEN <<"File must be PNG, JPEG, or GIF format">>
    ELSE <<"Invalid JSON in parameters: ", "JSONDecodeError">>

\* C16: a request whose upload is larger than 20MB, whose content type is
\* missing or not one of image/png, image/jpeg, image/gif, or whose
\* parameters field is not valid JSON never has a validator or an engine
\* invoked, and ends with a 4xx status and the detail of the failed check.
C16_RejectedBeforeValidation ==
    ~ReachesValidation
        => /\ ~ValidatorInvoked
           /\ hCalls = <<>>
           /\ hPc = "done" => /\ hResp.status \in 400..499
                              /\ hResp.detail = RejectionDetail

C18_SelectedEngines ==
    /\ EnginesDone =>
          EnginesCalled =
              IF hReq.selected_method \in {"potrace", "vtracer"}
              THEN <<hReq.selected_method>>
              ELSE <<"potrace", "vtracer">>
    /\ hResp.status = 200 =>
          DOMAIN hResp.vectorized =
              IF hReq.selected_method \in {"potrace", "vtracer"}
              THEN {hReq.selected_method}
              ELSE {"potrace", "vtracer"}
    /\ (hReq.selected_method \in {"potrace", "vtracer"})
          => \A i \in 1..Len(hCalls) : hCalls[i].engine = hReq.selected_method

\* the keys of an engine block whose strings the validator converts
ConvertedKeys(block) ==
    IF block = "potrace" THEN {"turdsize", "alphamax"}
    ELSE IF block = "vtracer" THEN NumericKeys \ {"turdsize", "alphamax"}
    ELSE {}
\* the number the validators put in the place of a numeral string (None for
\* a string that is no numeral)
NumberFor(key, chars) ==
    IF ~IsNumeral(Strip(chars)) THEN PyNone
    ELSE IF key # "alphamax" /\ IsIntNumeral(Strip(chars))
    THEN PyInt(NumeralValue(Strip(chars))[1])
    ELSE PyFloat(NumeralValue(Strip(chars))[1], NumeralValue(Strip(chars))[2])

\* C19: in a 200 response parameters_used has the blocks and keys the client
\* sent; a string under a key its validator converts is replaced by the
\* number it denotes, every other value (also of a block for an unknown
\* method) is as sent; each engine call was made with the block of
\* parameters_used for that engine.
C19_ParametersUsedCoerced ==
    hResp.status = 200 =>
        LET sent == hReq.parameters.value
            used == hResp.parameters_used
        IN  /\ DOMAIN used = DOMAIN sent
            /\ \A b \in DOMAIN sent :
                 /\ DOMAIN used[b] = DOMAIN sent[b]
                 /\ \A k \in DOMAIN sent[b] :
                      IF k \in ConvertedKeys(b) /\ sent[b][k].t = "str"
                      THEN used[b][k] = NumberFor(k, sent[b][k].s)
                      ELSE used[b][k] = sent[b][k]
            /\ \A i \in 1..Len(hCalls) :
                 hCalls[i].kwargs = BlockOf(used, hCalls[i].engine)

C19_Witness ==
    /\ hResp.status = 200
    /\ DOMAIN hReq.parameters.value = {"potrace", "vtracer", "other"}
    /\ SentBlock("potrace") = One("turdsize", PyStr(T_2))
    /\ hResp.parameters_used["potrace"] = One("turdsize", PyInt(2))
    /\ hResp.parameters_used["vtracer"] = One("color_precision", PyInt(2))
    /\ hResp.parameters_used["other"] = One("turdsize", PyStr(T_2))
    /\ Len(hCalls) = 2
    /\ hCalls[1].kwargs = One("turdsize", PyInt(2))

-----------------------------------------------------------------------------
(* Claims about the keys a validator does not know (specification SpecV)   *)

\* the keys the validator of the engine looks at
RecognizedKeys(engine) ==
    IF engine = "potrace"
    THEN {"turdsize", "alphamax", "turnpolicy", "invert", "opticurve"}
    ELSE {"colormode", "color_precision", "filter_speckle", "corner_threshold",
          "length_threshold", "max_iterations", "splice_threshold",
          "path_precision"}
Restricted(mapping, keys) == [k \in DOMAIN mapping \cap keys |-> mapping[k]]
Validated(engine, mapping) ==
    IF engine = "potrace" THEN validate_potrace_params(mapping)
    ELSE validate_vtracer_params(mapping)

\* C20: when a validator run has ended, every key the validator does not
\* recognize is in the mapping with the value it came with, and the run ended
\* (returned, or raised with its message) as the run on the mapping without
\* those keys does.
C20_UnknownKeysUntouched ==
    vPc \in {"returned", "raised"} =>
        /\ \A k \in DOMAIN vIn \ RecognizedKeys(vEngine) :
              k \in DOMAIN vParams /\ vParams[k] = vIn[k]
        /\ LET r == Validated(vEngine, Restricted(vIn, RecognizedKeys(vEngine)))
           IN  r.exc = vExc /\ r.msg = vMsg

C20_Witness ==
    /\ vPc = "returned"
    /\ vEngine = "vtracer"
    /\ DOMAIN vIn = {"extra", "color_precision"}
    /\ vIn["extra"] = PyStr(T_abc)
    /\ vParams["extra"] = PyStr(T_abc)
    /\ vParams["color_precision"] = PyInt(2)

-----------------------------------------------------------------------------
(* Claims about the parameters field of POST /vectorize (specification     *)
(* Spec)                                                                   *)

\* the upload passes the size check and the content-type check
UploadAccepted ==
    /\ hReq.size <= MAX_FILE_SIZE
    /\ hReq.content_type \in allowed_types

\* C24: a request whose upload passes the size and content-type checks is
\* answered with 400 or with 200, never with 500, whatever its parameters
\* field holds.
C24_ParametersNever500 ==
    (hPc = "done" /\ UploadAccepted) => hResp.status \in {200, 400}

\* the client sent a block for the engine and the engine's validator does not
\* return on it
Invalid(engine) ==
    Sent(engine) /\ Validated(engine, SentBlock(engine)).exc # ""

\* C28: for a request that reaches validation, an engine is called only when
\* the validator of every engine block sent has returned, whatever
\* selected_method is; a request with an invalid block has no engine call and
\* ends with status 400, and when the potrace block is invalid the detail is
\* the message of the potrace validator.
C28_BothBlocksValidatedFirst ==
    ReachesValidation =>
        /\ hCalls # <<>> =>
              \A e \in EngineNames : Sent(e) => e \in hValidated
        /\ (\E e \in EngineNames : Invalid(e)) =>
              /\ hCalls = <<>>
              /\ hPc = "done" => hResp.status = 400
        /\ (Invalid("potrace") /\ hPc = "done") =>
              hResp.detail = <<"Parameter validation failed: ">>
                                \o Validated("potrace", SentBlock("potrace")).msg

-----------------------------------------------------------------------------
(* Claims about what a validator run leaves in the mapping (specification  *)
(* SpecV)                                                                  *)

\* the place in program order of the statement that converts the string of a
\* key (0: the validator converts no string of that key): the two conversions
\* of validate_potrace_params come first, before its five checks; entry i of
\* the validations table converts and then checks
ConvertAt(key) ==
    IF vEngine = "potrace"
    THEN CASE key = "turdsize" -> 1
           [] key = "alphamax" -> 2
           [] OTHER -> 0
    ELSE IF KeyIndex(key) > 0 /\ validations[KeyIndex(key)].convert
    THEN 2 * KeyIndex(key) - 1
    ELSE 0

\* the place in program order of the statement that raised, from its message
ViolationAt ==
    IF vMsg[2] = " must be a valid number" THEN ConvertAt(vMsg[1])
    ELSE IF vEngine = "potrace"
    THEN CASE vMsg[1] = "turdsize" -> 3
           [] vMsg[1] = "alphamax" -> 4
           [] vMsg[1] = "turnpolicy" -> 5
           [] vMsg[1] = "invert" -> 6
           [] OTHER -> 7
    ELSE 2 * KeyIndex(vMsg[1])

\* the string of the key was converted before the violation was detected
CoercedBefore(key) ==
    /\ vIn[key].t = "str"
    /\ ConvertAt(key) > 0
    /\ ConvertAt(key) < ViolationAt

\* C25: when a validator has raised, the mapping has the keys it came with;
\* a key whose string was converted by a statement before the one that
\* raised holds a number, and every other key (a value that is no string, a
\* key the validator does not know, a key whose conversion comes after the
\* statement that raised) holds the value it came with.
C25_RaiseChangesOnlyCoerced ==
    vPc = "raised" =>
        /\ DOMAIN vParams = DOMAIN vIn
        /\ \A k \in DOMAIN vIn :
              IF CoercedBefore(k)
              THEN vParams[k].t \in {"int", "float"}
              ELSE vParams[k] = vIn[k]

C25_Witness ==
    /\ vPc = "raised"
    /\ vEngine = "potrace"
    /\ DOMAIN vIn = {"turdsize", "alphamax"}
    /\ vMsg[1] = "turdsize"
    /\ vIn["turdsize"] = PyInt(101)
    /\ vIn["alphamax"] = PyStr(T_2p5)
    /\ vParams["alphamax"] = PyFloat(25, 1)
    /\ vParams["turdsize"] = PyInt(101)

\* C30: a mapping a validator has accepted is accepted again by the same
\* validator, which then changes nothing in it.
C30_ValidationIdempotent ==
    vPc = "returned" =>
        /\ Validated(vEngine, vParams).exc = ""
        /\ Validated(vEngine, vParams).params = vParams

C30_Witness ==
    /\ vPc = "returned"
    /\ vEngine = "vtracer"
    /\ DOMAIN vIn = {"color_precision", "length_threshold"}
    /\ vIn["color_precision"] = PyStr(T_2)
    /\ vParams["color_precision"] = PyInt(2)
    /\ vIn["length_threshold"] = PyStr(T_2p5)
    /\ vParams["length_threshold"] = PyFloat(25, 1)
    /\ Validated(vEngine, vParams).params = vParams

-----------------------------------------------------------------------------
(* Claims about what the normalizer leaves alone (specification SpecN)     *)

L_strokeWidth == <<"s", "t", "r", "o", "k", "e", "-", "w", "i", "d", "t", "h", "=", "\"">>

\* the call returned from line 225: no statement of the try block raised
ReturnedNormally == nPc = "returned" /\ nFail = 0

\* C26: a call that returns normally leaves every attribute other than width,
\* height and viewBox as it is: the output holds each stroke-width="..."
\* attribute of the input.
C26_OtherAttributesKept ==
    ReturnedNormally =>
        Occurrences(nOut, L_strokeWidth) = Occurrences(nIn, L_strokeWidth)

\* C29: for a call that returns normally, the call on its output with the same
\* dimensions returns the output as it is.
C29_NormalizeIdempotent ==
    ReturnedNormally =>
        normalize_svg_dimensions(nOut, nDims[1], nDims[2], 0).ret = nOut

-----------------------------------------------------------------------------
(* Claims about one engine call on an upload (specification SpecE)         *)

\* the token of cmd after the flag, and how often cmd holds the flag
FlagValue(cmd, flag) == cmd[(CHOOSE i \in 1..Len(cmd) : cmd[i] = flag) + 1]
FlagCount(cmd, flag) == Cardinality({ i \in 1..Len(cmd) : cmd[i] = flag })

\* the text of the argument values of the runs
GivenText(v) ==
    CASE v = PyInt(2) -> "2"
      [] v = PyInt(0) -> "0"
      [] v = PyInt(1) -> "1"
      [] v = PyFloat(25, 1) -> "2.5"
      [] v = PyFloat(10, 1) -> "1.0"
      [] v = PyStr(valid_policies[5]) -> "minority"
      [] v = PyStr(valid_policies[1]) -> "black"

\* the potrace call has ended after the potrace program ran
PotraceEnded ==
    eEngine = "potrace" /\ eResult.ran /\ ePc \in {"returned", "raised"}

BitmapSaved ==
    eEngine = "potrace" /\ ePc \in {"build", "run", "ran", "returned"}
\* the bitmap the call saves for the same upload with the other value of invert
OtherBitmap == PotraceBitmap(eImage, PyBool(~Truthy(eKwargs.invert)))
\* the bitmaps saved with invert=False and with invert=True
PlainBitmap == IF Truthy(eKwargs.invert) THEN OtherBitmap ELSE eImg
InvertedBitmap == IF Truthy(eKwargs.invert) THEN eImg ELSE OtherBitmap
\* every pixel of the image is black
BlackSquare == \A i \in 1..Len(eImage.gray) : eImage.gray[i] = 0

\* C22: for one upload, the bitmap saved with invert=True holds 255 - x where
\* the bitmap saved with invert=False holds x, so the two differ; for an
\* all-black image the markup returned differs from the markup the call with
\* the other value of invert returns.
C22_InvertedBitmap ==
    /\ BitmapSaved =>
          /\ Len(InvertedBitmap) = Len(PlainBitmap)
          /\ \A i \in 1..Len(PlainBitmap) :
                InvertedBitmap[i] = 255 - PlainBitmap[i]
          /\ InvertedBitmap # PlainBitmap
    /\ (eEngine = "potrace" /\ ePc = "returned" /\ BlackSquare) =>
          eRet.text # normalize_svg_dimensions(TracedMarkup(OtherBitmap),
                                               eSize[1], eSize[2], 0).ret

C22_Witness ==
    /\ eEngine = "potrace"
    /\ ePc = "returned"
    /\ eKwargs.invert = PyBool(TRUE)
    /\ eImage.gray = <<0, 0>>
    /\ eImg = <<255, 255>>
    /\ OtherBitmap = <<0, 0>>

\* C23: a vtracer_vectorize call on an upload that decodes as an image calls
\* the VTracer library, whatever the upload's format and length: the call has
\* not raised unless the library has been called (and raised).
C23_ReencodingNeverFails ==
    (eEngine = "vtracer" /\ eImage.decodes) =>
        /\ ePc = "raised" => eInvoked
        /\ ePc = "returned" => eInvoked /\ ~eRet.raised

-----------------------------------------------------------------------------
(* Claims about the Access-Control-Allow-Origin header (specification      *)
(* SpecC)                                                                  *)

\* the origins of the allow-list
AllowList == { cEnv[i] : i \in 1..Len(cEnv) } \ {""}

\* C27: every response sent has an Access-Control-Allow-Origin header; its
\* value is the Origin of the request when that is in the allow-list, else
\* the first origin of the list, "*" when the list is empty; an Origin that
\* is not in the allow-list is never the value.
C27_AllowOriginOnEveryResponse ==
    cPc = "sent" =>
        /\ ACAO \in DOMAIN cResp.headers
        /\ cResp.headers[ACAO] =
              IF cOrigin \in AllowList THEN cOrigin
              ELSE IF AllowList # {} THEN cEnv[1]
              ELSE "*"
        /\ cOrigin \notin AllowList => cResp.headers[ACAO] # cOrigin

====
